---- MODULE Spec2Model ----
(***************************************************************************)
(* The file-based event bus of VouchAI (src/src/communication/EventBus.ts) *)
(* as a state machine.  The shared state is the events directory: the     *)
(* pending namespace (`{id}.json` and the transient `.{id}.tmp`) and the  *)
(* processed (archive) namespace (`{id}.json` and `corrupted-{id}.json`). *)
(* Every bus instance runs poll() and publish() as chains of awaited file *)
(* operations; each awaited operation is one step, so the steps of        *)
(* different processes interleave freely.                                 *)
(***************************************************************************)
EXTENDS Integers, Sequences, FiniteSets, TLC

(* ------------------------------------------------------------------ *)
(* Processes                                                            *)
(* ------------------------------------------------------------------ *)

\* The bus instances of one deployment: the orchestrator spawns the hiring,
\* worker and arbitrator services and then starts its own listener.  A bus is
\* named by its agentId, and its poll cycle is the task of the same name.
Orchestrator == "orchestrator"

Services == {"hiring", "worker", "arbitrator"}

Bus == {Orchestrator} \cup Services

\* publish() calls in flight (made by any agent process).
Pub == {"pub1", "pub2"}

\* A second poll cycle of a bus: the one a timer tick starts while the bus's
\* earlier cycle is still awaiting (setInterval does not wait for it).
Tick == {"hiring#2"}

Tasks == Bus \cup Tick \cup Pub

\* this.agentId of the bus whose poll cycle a task is.
AgentId(t) == IF t = "hiring#2" THEN "hiring" ELSE t

\* The poll cycles a bus can have in flight.
Cycles(b) == {t \in Bus \cup Tick : AgentId(t) = b}

\* Event ids that occur.
Ids == {"e1", "e2", "e3"}

\* The ids generateEventId() comes up with.
GeneratedIds == {"e1", "e2"}

\* processedBy.length >= 3 archives the record.
ExpectedConsumers == 3

\* The handler-invocation log saturates here.
MaxInvoke == 2

(* ------------------------------------------------------------------ *)
(* Event records and file contents                                      *)
(* ------------------------------------------------------------------ *)

\* processedBy of a caller's record that has no processedBy property.
NoProcessedBy == <<"undefined">>

NullEvent ==
    [id |-> "", type |-> "", timestamp |-> 0, sourceAgent |-> "",
     targetAgent |-> "", payload |-> "", processedBy |-> <<>>, status |-> ""]

\* JSON.stringify(event, null, 2): the text of a complete record.
Stringify(event) == [valid |-> TRUE, json |-> event]

\* JSON.parse(content) of a text that parses.
Parse(text) == text.json

\* A text JSON.parse rejects: an empty (just truncated) or torn file.
Corrupt == [valid |-> FALSE, json |-> NullEvent]

\* A directory entry.  `writers` are the tasks that hold the file open for
\* writing (fs.writeFile opens with truncation, writes, closes: three steps
\* of the thread pool, not one).  The set travels with the file on rename,
\* as the open descriptors of an inode do.
NoFile == [exists |-> FALSE, text |-> Corrupt, writers |-> {}]

\* open(path, 'w') by task t: creates the file, or truncates the one there.
OpenTrunc(file, t) ==
    [exists |-> TRUE, text |-> Corrupt,
     writers |-> (IF file.exists THEN file.writers ELSE {}) \cup {t}]

\* The text of a file after task t writes `text` at offset 0 of it.  A file
\* another writer filled since t truncated it ends as t's text or, when the
\* two texts differ in length, as a mix of both (torn).
Written(file, text, torn) ==
    IF file.text.valid /\ file.text # text /\ torn THEN Corrupt ELSE text

\* write + close by task t, in one directory: the file t holds open, under
\* whatever name it has by now, receives the text.
WriteIn(dir, t, text, torn) ==
    [id \in Ids |->
        IF dir[id].exists /\ t \in dir[id].writers
        THEN [exists |-> TRUE, text |-> Written(dir[id], text, torn),
              writers |-> dir[id].writers \ {t}]
        ELSE dir[id]]

InSeq(x, s) == \E i \in 1..Len(s) : s[i] = x

SeqToSet(s) == {s[i] : i \in 1..Len(s)}

(* ------------------------------------------------------------------ *)
(* State                                                                *)
(* ------------------------------------------------------------------ *)

VARIABLES
    pending,    \* pendingDir/{id}.json
    temp,       \* pendingDir/.{id}.tmp
    processed,  \* processedDir/{id}.json
    corrupted,  \* processedDir/corrupted-{id}.json
    pc,         \* where each task is in poll() or publish()
    files,      \* poll(): eventFiles not read yet
    events,     \* poll(): events read (then sorted; the head is in process)
    buf,        \* publish(): jsonContent; moveToProcessed(): content
    invoked,    \* times each handler of a bus ran for a record since its publish
    handled,    \* the handlers a bus called for a record, in call order
    thrown,     \* the tasks whose poll() or publish() call has rejected
    faulted,    \* per call in flight: the record ids a storage step failed for
    running,    \* processEvent(): the handlers called and not yet settled
    todo,       \* processEvent(): the handlers the loop has not called yet
    handlers,   \* this.handlers of each bus: per type, in subscribe() order
    failing,    \* the handlers that throw (or reject) when called
    isPolling,  \* this.isPolling of each bus
    pollingTimer, \* this.pollingTimer of each bus holds a timer
    timers,     \* setInterval timers of each bus not cleared yet
    awaiting,   \* startPolling(): the initial poll cycles it is awaiting
    kills,      \* history: consumer processes killed so far
    pre,        \* history: pending as the last poll cycle found it
    last,       \* history: the task whose call returned last
    polled,     \* history: buses whose poll cycle returned since the last publish
    firstPub,   \* history: text of the first publish call per id
    npub,       \* history: publish calls returned per id (saturating)
    given,      \* history: the record each publish call was made with, and by whom
    runtime,    \* how far the construction of each bus's agent has come
    ensure,     \* ensureDirectories() of each bus: the mkdir it is at
    dirs        \* the directories of the marketplace that exist

store == <<pending, temp, processed, corrupted>>

locals == <<pc, files, events, buf>>

hist == <<pre, last, polled, firstPub, npub, given>>

\* The handler registry of each bus and the behaviour of the handlers.
registry == <<handlers, failing>>

\* The handler loop of each poll cycle, where it is followed call by call.
calls == <<running, todo>>

\* The polling lifecycle of each bus.
life == <<isPolling, pollingTimer, timers, awaiting>>

\* The construction of each bus and the directories it creates.
boot == <<runtime, ensure, dirs>>

\* What the specifications of the store alone leave as it is.
fixed == <<handlers, failing, isPolling, pollingTimer, timers, awaiting, kills,
           running, todo, runtime, ensure, dirs>>

vars == <<pending, temp, processed, corrupted, pc, files, events, buf,
          invoked, handled, thrown, faulted, handlers, failing, isPolling, pollingTimer,
          timers, awaiting, kills, running, todo, pre, last, polled,
          firstPub, npub, given, runtime, ensure, dirs>>

(* ------------------------------------------------------------------ *)
(* Pure helpers of the bus                                              *)
(* ------------------------------------------------------------------ *)

\* Timestamps, as the numbers new Date(timestamp).getTime() yields.
MaxTs == 2

Timestamps == 1..MaxTs

\* Fault: a publish() that sets status and processedBy whether or not the
\* caller gave them.
WithDefaultsForced(event, genId, now) ==
    [event EXCEPT
        !.id = IF @ = "" THEN genId ELSE @,
        !.timestamp = IF @ = 0 THEN now ELSE @,
        !.processedBy = <<>>,
        !.status = "pending"]

\* publish(): the defaults of a record's missing (falsy) fields.  genId is
\* generateEventId()'s value, now is new Date().toISOString().
WithDefaults(event, genId, now) ==
    [event EXCEPT
        !.id = IF @ = "" THEN genId ELSE @,
        !.timestamp = IF @ = 0 THEN now ELSE @,
        !.processedBy = IF @ = NoProcessedBy THEN <<>> ELSE @,
        !.status = IF @ = "" THEN "pending" ELSE @]

\* generateEventId() is `event-{Date.now()}-{randomUUID()}`: an id no
\* resource and no call in flight has.
FreshId(id) ==
    /\ ~pending[id].exists /\ ~temp[id].exists
    /\ ~processed[id].exists /\ ~corrupted[id].exists
    /\ \A t \in Pub : pc[t] = "idle" \/ buf[t].json.id # id

\* The event types of the marketplace.
EventTypes ==
    {"JOB_CREATED", "JOB_ACCEPTED", "WORK_SUBMITTED", "WORK_APPROVED",
     "DISPUTE_FILED", "ARBITRATION_COMPLETE", "PAYMENT_RELEASED"}

\* setupEventHandlers() of each agent: the handlers a bus has per type, in
\* the order of its subscribe() calls.
SetupEventHandlers(bus, type) ==
    CASE bus = Orchestrator -> <<"handleEvent">>
      [] bus = "hiring" /\ type = "WORK_SUBMITTED" -> <<"handleWorkSubmitted">>
      [] bus = "hiring" /\ type = "ARBITRATION_COMPLETE" -> <<"handleArbitrationComplete">>
      [] bus = "worker" /\ type = "JOB_CREATED" -> <<"handleJobCreated">>
      [] bus = "worker" /\ type = "ARBITRATION_COMPLETE" -> <<"handleArbitrationComplete">>
      [] bus = "arbitrator" /\ type = "DISPUTE_FILED" -> <<"handleDisputeFiled">>
      [] bus = "arbitrator" /\ type = "WORK_APPROVED" -> <<"handleWorkApproved">>
      [] OTHER -> <<>>

\* processEvent(): this.handlers.get(event.type) || [].
Handlers(bus, type) ==
    IF type \in DOMAIN handlers[bus] THEN handlers[bus][type] ELSE <<>>

\* Fault: a handler loop without its try/catch stops at the first handler
\* that throws.
RECURSIVE CallHandlersUncaught(_, _)
CallHandlersUncaught(hs, throwing) ==
    IF hs = <<>> THEN <<>>
    ELSE IF Head(hs) \in throwing THEN <<Head(hs)>>
    ELSE <<Head(hs)>> \o CallHandlersUncaught(Tail(hs), throwing)

\* processEvent(): the handler loop.  Each handler is awaited inside its own
\* try/catch: one that throws is logged and the loop goes on.  The value is
\* the handlers called, in call order.
RECURSIVE CallHandlers(_, _)
CallHandlers(hs, throwing) ==
    IF hs = <<>> THEN <<>>
    ELSE IF Head(hs) \in throwing
         THEN <<Head(hs)>> \o CallHandlers(Tail(hs), throwing)
         ELSE <<Head(hs)>> \o CallHandlers(Tail(hs), throwing)

\* Fault: processEvent() without its processedBy guard.
AlreadyProcessedNever(event, agentId) == FALSE

\* processEvent(): event.processedBy.includes(this.agentId).
AlreadyProcessed(event, agentId) == InSeq(agentId, event.processedBy)

\* Fault: processEvent() archiving one mark early.
AllAgentsProcessedAtTwo(event) == Len(event.processedBy) >= ExpectedConsumers - 1

\* processEvent(): allAgentsProcessed, after the push.
AllAgentsProcessed(event) == Len(event.processedBy) >= ExpectedConsumers

\* events.sort((a, b) => time(a) - time(b)): stable, oldest first.
RECURSIVE InsertByTimestamp(_, _)
InsertByTimestamp(event, sorted) ==
    IF sorted = <<>> THEN <<event>>
    ELSE IF Head(sorted).timestamp <= event.timestamp
         THEN <<Head(sorted)>> \o InsertByTimestamp(event, Tail(sorted))
         ELSE <<event>> \o sorted

\* Fault: a poll() that processes the events in the order it read them.
ListingOrder(evs) == evs

RECURSIVE SortByTimestamp(_)
SortByTimestamp(evs) ==
    IF evs = <<>> THEN <<>>
    ELSE InsertByTimestamp(evs[Len(evs)], SortByTimestamp(SubSeq(evs, 1, Len(evs) - 1)))

\* The names in pendingDir: `{id}.json` and `.{id}.tmp`.
FinalName(id) == [dot |-> FALSE, id |-> id, ext |-> "json"]

TempName(id) == [dot |-> TRUE, id |-> id, ext |-> "tmp"]

\* Fault: a poll() that takes every name of the directory.
IsEventFileAny(file) == TRUE

\* poll(): file.endsWith('.json') && !file.startsWith('.').
IsEventFile(file) == file.ext = "json" /\ ~file.dot

\* fs.readdir(pendingDir), then the filter: the names in any order the file
\* system lists them.  dir holds the files under the final names.
Listings(dir) ==
    LET names == {FinalName(id) : id \in {i \in Ids : dir[i].exists}}
                    \cup {TempName(id) : id \in {i \in Ids : temp[i].exists}}
        eventFiles == {file \in names : IsEventFile(file)}
    IN  {s \in UNION {[1..n -> eventFiles] : n \in {Cardinality(eventFiles)}} :
            \A i, j \in 1..Len(s) : i # j => s[i] # s[j]}

\* The file in pendingDir that has the name.
FileAt(file) == IF file.ext = "tmp" THEN temp[file.id] ELSE pending[file.id]

(* ------------------------------------------------------------------ *)
(* publish(event)                                                       *)
(* ------------------------------------------------------------------ *)

\* Fault: publish() without its existence check.
NeverPublished(id) == FALSE

\* fs.access(eventFilePath) succeeds: the duplicate publish is skipped.
AlreadyPublished(id) == pending[id].exists

\* The caller's record gets its defaults, then the existence check: a
\* resource under the final name makes publish return at once.
PublishBegin(t, input) ==
    /\ pc[t] = "idle"
    /\ \E genId \in GeneratedIds, now \in Timestamps :
        /\ input.id = "" => FreshId(genId)
        /\ LET event == WithDefaults(input, genId, now)
           IN  /\ buf' = [buf EXCEPT ![t] = Stringify(event)]
               /\ pc' = [pc EXCEPT ![t] =
                            IF AlreadyPublished(event.id) THEN "idle" ELSE "pub_open"]
    /\ faulted' = [faulted EXCEPT ![t] = {}]
    /\ UNCHANGED <<pending, temp, processed, corrupted, files, events, invoked, handled, thrown>>

\* fs.writeFile(tempFilePath, jsonContent): open with truncation ...
PublishOpen(t) ==
    /\ pc[t] = "pub_open"
    /\ LET id == buf[t].json.id
       IN  temp' = [temp EXCEPT ![id] = OpenTrunc(temp[id], t)]
    /\ pc' = [pc EXCEPT ![t] = "pub_write"]
    /\ UNCHANGED <<pending, processed, corrupted, files, events, buf, invoked, handled, thrown, faulted>>

\* ... then write and close.  The file opened may have been renamed since.
PublishWrite(t) ==
    /\ pc[t] = "pub_write"
    /\ \E torn \in BOOLEAN :
        /\ temp' = WriteIn(temp, t, buf[t], torn)
        /\ pending' = WriteIn(pending, t, buf[t], torn)
        /\ corrupted' = WriteIn(corrupted, t, buf[t], torn)
    /\ pc' = [pc EXCEPT ![t] = "pub_readback"]
    /\ UNCHANGED <<processed, files, events, buf, invoked, handled, thrown, faulted>>

\* fs.readFile(tempFilePath) and JSON.parse of what it returns: a missing
\* temp file throws to the outer catch, an unparseable one is unlinked.
PublishReadBack(t) ==
    /\ pc[t] = "pub_readback"
    /\ LET id == buf[t].json.id
       IN  pc' = [pc EXCEPT ![t] =
                    IF ~temp[id].exists THEN "idle"
                    ELSE IF ~temp[id].text.valid THEN "pub_unlink"
                    ELSE "pub_rename"]
    /\ UNCHANGED <<pending, temp, processed, corrupted, files, events, buf, invoked, handled, thrown, faulted>>

\* fs.unlink(tempFilePath).catch(() => {}), then the error is thrown to the
\* outer catch, which logs it.
PublishUnlink(t) ==
    /\ pc[t] = "pub_unlink"
    /\ LET id == buf[t].json.id
       IN  temp' = [temp EXCEPT ![id] = NoFile]
    /\ pc' = [pc EXCEPT ![t] = "idle"]
    /\ UNCHANGED <<pending, processed, corrupted, files, events, buf, invoked, handled, thrown, faulted>>

\* fs.rename(tempFilePath, eventFilePath): the temp file takes the final
\* name, replacing a file that has it; a missing temp file throws to the
\* outer catch.  A record that becomes visible starts with no handler run.
PublishRename(t) ==
    /\ pc[t] = "pub_rename"
    /\ LET id == buf[t].json.id
       IN  IF temp[id].exists
           THEN /\ pending' = [pending EXCEPT ![id] = temp[id]]
                /\ temp' = [temp EXCEPT ![id] = NoFile]
                /\ invoked' = [b \in Bus |-> [invoked[b] EXCEPT ![id] = 0]]
                /\ handled' = [b \in Bus |-> [handled[b] EXCEPT ![id] = <<>>]]
                /\ UNCHANGED <<thrown, faulted>>
           ELSE UNCHANGED <<pending, temp, invoked, handled, thrown, faulted>>
    /\ pc' = [pc EXCEPT ![t] = "idle"]
    /\ UNCHANGED <<processed, corrupted, files, events, buf>>

\* this.agentType of the agent runtime that owns bus b, as its constructor
\* passes it to super(): the orchestrator is constructed as 'hiring'.
AgentType(b) == IF b = Orchestrator THEN "hiring" ELSE b

\* Fault: a publishEvent() that passes the caller's record on as it is.
PublishEventUnstamped(t, b, input) == PublishBegin(t, input)

\* AgentSubscriber.publishEvent(event): event.sourceAgent = this.agentType,
\* then eventBus.publish(event).
PublishEvent(t, b, input) ==
    PublishBegin(t, [input EXCEPT !.sourceAgent = AgentType(b)])

\* A storage step of the publish call t fails for record id: the outer
\* catch logs the error and publish() returns.
PublishCaught(t) ==
    /\ pc' = [pc EXCEPT ![t] = "idle"]
    /\ faulted' = [faulted EXCEPT ![t] = @ \cup {buf[t].json.id}]

\* fs.access(eventFilePath) rejects although the file is there (EACCES,
\* EIO): the inner catch takes any rejection as `file doesn't exist`, and
\* publish goes on.
PublishAccessFails(t, input) ==
    /\ pc[t] = "idle"
    /\ \E genId \in GeneratedIds, now \in Timestamps :
        /\ input.id = "" => FreshId(genId)
        /\ LET event == WithDefaults(input, genId, now)
           IN  /\ AlreadyPublished(event.id)
               /\ buf' = [buf EXCEPT ![t] = Stringify(event)]
               /\ faulted' = [faulted EXCEPT ![t] = {event.id}]
    /\ pc' = [pc EXCEPT ![t] = "pub_open"]
    /\ UNCHANGED <<pending, temp, processed, corrupted, files, events, invoked, handled, thrown>>

\* fs.writeFile(tempFilePath, ...) rejects at the open: nothing is written.
PublishOpenFails(t) ==
    /\ pc[t] = "pub_open"
    /\ PublishCaught(t)
    /\ UNCHANGED <<pending, temp, processed, corrupted, files, events, buf, invoked, handled, thrown>>

\* fs.writeFile(tempFilePath, ...) rejects at the write (ENOSPC, EIO): the
\* file stays as the open left it, and is closed.
PublishWriteFails(t) ==
    /\ pc[t] = "pub_write"
    /\ temp' = [id \in Ids |-> [temp[id] EXCEPT !.writers = @ \ {t}]]
    /\ pending' = [id \in Ids |-> [pending[id] EXCEPT !.writers = @ \ {t}]]
    /\ corrupted' = [id \in Ids |-> [corrupted[id] EXCEPT !.writers = @ \ {t}]]
    /\ PublishCaught(t)
    /\ UNCHANGED <<processed, files, events, buf, invoked, handled, thrown>>

\* fs.readFile(tempFilePath) rejects.
PublishReadBackFails(t) ==
    /\ pc[t] = "pub_readback"
    /\ PublishCaught(t)
    /\ UNCHANGED <<pending, temp, processed, corrupted, files, events, buf, invoked, handled, thrown>>

\* fs.rename(tempFilePath, eventFilePath) rejects: no name changes.
PublishRenameFails(t) ==
    /\ pc[t] = "pub_rename"
    /\ PublishCaught(t)
    /\ UNCHANGED <<pending, temp, processed, corrupted, files, events, buf, invoked, handled, thrown>>

(* ------------------------------------------------------------------ *)
(* poll()                                                               *)
(* ------------------------------------------------------------------ *)

\* The end of the read loop: events.sort(...), then the process loop (none
\* for an empty batch).
ReadDone(t, evs, rest) ==
    IF rest # <<>>
    THEN /\ files' = [files EXCEPT ![t] = rest]
         /\ events' = [events EXCEPT ![t] = evs]
         /\ pc' = [pc EXCEPT ![t] = "read"]
    ELSE /\ files' = [files EXCEPT ![t] = <<>>]
         /\ events' = [events EXCEPT ![t] = SortByTimestamp(evs)]
         /\ pc' = [pc EXCEPT ![t] = IF evs = <<>> THEN "idle" ELSE "dispatch"]

\* The process loop moves on to the next event, or poll() returns.
NextEvent(t) ==
    /\ events' = [events EXCEPT ![t] = Tail(events[t])]
    /\ pc' = [pc EXCEPT ![t] = IF Tail(events[t]) = <<>> THEN "idle" ELSE "dispatch"]

\* fs.readdir(pendingDir) and the filter; no event file: return.
PollReaddir(t) ==
    /\ pc[t] = "idle"
    /\ \E listing \in Listings(pending) :
        /\ files' = [files EXCEPT ![t] = listing]
        /\ pc' = [pc EXCEPT ![t] = IF listing = <<>> THEN "idle" ELSE "read"]
    /\ events' = [events EXCEPT ![t] = <<>>]
    /\ faulted' = [faulted EXCEPT ![t] = {}]
    /\ UNCHANGED <<pending, temp, processed, corrupted, buf, invoked, handled, thrown>>

\* fs.readdir(pendingDir) rejects (the directory is gone or unreadable, the
\* process is out of descriptors): poll()'s catch logs and rethrows.
PollReaddirFails(t) ==
    /\ pc[t] = "idle"
    /\ thrown' = thrown \cup {t}
    /\ faulted' = [faulted EXCEPT ![t] = {}]
    /\ UNCHANGED <<pending, temp, processed, corrupted, pc, files, events, buf,
                   invoked, handled>>

\* fs.readFile of the next event file and JSON.parse: a file gone since
\* the listing is skipped, an unparseable one goes to quarantine.
PollReadFile(t) ==
    /\ pc[t] = "read"
    /\ LET file == FileAt(Head(files[t]))
       IN  IF ~file.exists
           THEN ReadDone(t, events[t], Tail(files[t]))
           ELSE IF ~file.text.valid
           THEN /\ pc' = [pc EXCEPT ![t] = "quarantine"]
                /\ UNCHANGED <<files, events>>
           ELSE ReadDone(t, Append(events[t], Parse(file.text)), Tail(files[t]))
    /\ UNCHANGED <<pending, temp, processed, corrupted, buf, invoked, handled, thrown, faulted>>

\* Fault: a read loop that skips an unparseable file and leaves it there.
PollQuarantineSkip(t) ==
    /\ pc[t] = "quarantine"
    /\ ReadDone(t, events[t], Tail(files[t]))
    /\ UNCHANGED <<pending, corrupted, temp, processed, buf, invoked, handled, thrown, faulted>>

\* fs.rename(corruptedPath, backupPath).catch(() => {}); continue.
PollQuarantine(t) ==
    /\ pc[t] = "quarantine"
    /\ LET file == Head(files[t]).id
       IN  IF pending[file].exists
           THEN /\ corrupted' = [corrupted EXCEPT ![file] = pending[file]]
                /\ pending' = [pending EXCEPT ![file] = NoFile]
           ELSE UNCHANGED <<pending, corrupted>>
    /\ ReadDone(t, events[t], Tail(files[t]))
    /\ UNCHANGED <<temp, processed, buf, invoked, handled, thrown, faulted>>

(* ------------------------------------------------------------------ *)
(* processEvent(event) and moveToProcessed(eventId)                     *)
(* ------------------------------------------------------------------ *)

Bump(n) == IF n < MaxInvoke THEN n + 1 ELSE n

\* processEvent()'s outer catch logs and rethrows, and so does poll()'s:
\* the cycle ends there, the events left are not processed, poll() rejects.
PollThrows(t) ==
    /\ events' = [events EXCEPT ![t] = <<>>]
    /\ pc' = [pc EXCEPT ![t] = "idle"]
    /\ thrown' = thrown \cup {t}

\* Fault: a processEvent() that leaves a record addressed to another agent
\* to that agent.
PollDispatchDirected(t) ==
    /\ pc[t] = "dispatch"
    /\ LET event == Head(events[t])
           me == AgentId(t)
           marked == [event EXCEPT !.processedBy = Append(@, me)]
           hs == Handlers(me, event.type)
       IN  IF event.processedBy = NoProcessedBy
           THEN /\ PollThrows(t)
                /\ UNCHANGED <<invoked, handled, faulted>>
           ELSE IF AlreadyProcessed(event, me)
                    \/ (event.targetAgent # "" /\ event.targetAgent # me)
           THEN /\ NextEvent(t)
                /\ UNCHANGED <<invoked, handled, thrown, faulted>>
           ELSE /\ UNCHANGED <<thrown, faulted>>
                /\ invoked' = [invoked EXCEPT ![me][event.id] =
                                IF hs = <<>> THEN @ ELSE Bump(@)]
                /\ handled' = [handled EXCEPT ![me][event.id] =
                                IF invoked[me][event.id] < MaxInvoke
                                THEN @ \o CallHandlers(hs, failing) ELSE @]
                /\ events' = [events EXCEPT ![t] = <<marked>> \o Tail(events[t])]
                /\ pc' = [pc EXCEPT ![t] =
                            IF AllAgentsProcessed(marked) THEN "mv_read" ELSE "up_access"]
    /\ UNCHANGED <<pending, temp, processed, corrupted, files, buf>>

\* Fault: a processEvent() that returns when no handler is registered for
\* the record's type, leaving the record unmarked.
PollDispatchSkipUnhandled(t) ==
    /\ pc[t] = "dispatch"
    /\ LET event == Head(events[t])
           me == AgentId(t)
           marked == [event EXCEPT !.processedBy = Append(@, me)]
           hs == Handlers(me, event.type)
       IN  IF event.processedBy = NoProcessedBy
           THEN /\ PollThrows(t)
                /\ UNCHANGED <<invoked, handled, faulted>>
           ELSE IF AlreadyProcessed(event, me) \/ hs = <<>>
           THEN /\ NextEvent(t)
                /\ UNCHANGED <<invoked, handled, thrown, faulted>>
           ELSE /\ UNCHANGED <<thrown, faulted>>
                /\ invoked' = [invoked EXCEPT ![me][event.id] = Bump(@)]
                /\ handled' = [handled EXCEPT ![me][event.id] =
                                IF invoked[me][event.id] < MaxInvoke
                                THEN @ \o CallHandlers(hs, failing) ELSE @]
                /\ events' = [events EXCEPT ![t] = <<marked>> \o Tail(events[t])]
                /\ pc' = [pc EXCEPT ![t] =
                            IF AllAgentsProcessed(marked) THEN "mv_read" ELSE "up_access"]
    /\ UNCHANGED <<pending, temp, processed, corrupted, files, buf>>

\* The guard, the handler loop (each handler awaited in turn; a handler that
\* throws is logged), the push of this.agentId and the threshold test.  The
\* handlers are the agents' business logic and touch no state of the bus.
\* A record without processedBy makes the guard's `.includes` a TypeError.
PollDispatch(t) ==
    /\ pc[t] = "dispatch"
    /\ LET event == Head(events[t])
           me == AgentId(t)
           marked == [event EXCEPT !.processedBy = Append(@, me)]
           hs == Handlers(me, event.type)
       IN  IF event.processedBy = NoProcessedBy
           THEN /\ PollThrows(t)
                /\ UNCHANGED <<invoked, handled, faulted>>
           ELSE IF AlreadyProcessed(event, me)
           THEN /\ NextEvent(t)
                /\ UNCHANGED <<invoked, handled, thrown, faulted>>
           ELSE /\ UNCHANGED <<thrown, faulted>>
                /\ invoked' = [invoked EXCEPT ![me][event.id] =
                                IF hs = <<>> THEN @ ELSE Bump(@)]
                /\ handled' = [handled EXCEPT ![me][event.id] =
                                IF invoked[me][event.id] < MaxInvoke
                                THEN @ \o CallHandlers(hs, failing) ELSE @]
                /\ events' = [events EXCEPT ![t] = <<marked>> \o Tail(events[t])]
                /\ pc' = [pc EXCEPT ![t] =
                            IF AllAgentsProcessed(marked) THEN "mv_read" ELSE "up_access"]
    /\ UNCHANGED <<pending, temp, processed, corrupted, files, buf>>

\* The same, call by call.  First the guard and this.handlers.get(type).
ProcessBegin(t) ==
    /\ pc[t] = "dispatch"
    /\ LET event == Head(events[t])
           me == AgentId(t)
       IN  IF event.processedBy = NoProcessedBy
           THEN /\ PollThrows(t)
                /\ UNCHANGED todo
           ELSE IF AlreadyProcessed(event, me)
           THEN /\ NextEvent(t)
                /\ UNCHANGED <<thrown, todo>>
           ELSE /\ todo' = [todo EXCEPT ![t] = Handlers(me, event.type)]
                /\ pc' = [pc EXCEPT ![t] = "handlers"]
                /\ UNCHANGED <<events, thrown>>
    /\ UNCHANGED <<pending, temp, processed, corrupted, files, buf, invoked,
                   handled, faulted, running>>

\* Fault: a loop that calls the next handler without awaiting the one
\* before.
HandlerCallNoAwait(t) ==
    /\ pc[t] = "handlers"
    /\ todo[t] # <<>>
    /\ running' = [running EXCEPT ![t] = @ \cup {Head(todo[t])}]
    /\ todo' = [todo EXCEPT ![t] = Tail(@)]
    /\ handled' = [handled EXCEPT ![AgentId(t)][Head(events[t]).id] =
                        Append(@, Head(todo[t]))]
    /\ UNCHANGED <<pending, temp, processed, corrupted, pc, files, events, buf,
                   invoked, thrown, faulted>>

\* `await handler(event)` for the next handler of the list: the loop is
\* there only when the handler before has settled.
HandlerCall(t) ==
    /\ pc[t] = "handlers"
    /\ todo[t] # <<>>
    /\ running[t] = {}
    /\ running' = [running EXCEPT ![t] = {Head(todo[t])}]
    /\ todo' = [todo EXCEPT ![t] = Tail(@)]
    /\ handled' = [handled EXCEPT ![AgentId(t)][Head(events[t]).id] =
                        Append(@, Head(todo[t]))]
    /\ UNCHANGED <<pending, temp, processed, corrupted, pc, files, events, buf,
                   invoked, thrown, faulted>>

\* The handler awaited resolves, or rejects and the catch logs it.
HandlerSettles(t) ==
    /\ pc[t] = "handlers"
    /\ \E h \in running[t] : running' = [running EXCEPT ![t] = @ \ {h}]
    /\ UNCHANGED <<pending, temp, processed, corrupted, pc, files, events, buf,
                   invoked, handled, thrown, faulted, todo>>

\* After the loop: event.processedBy.push(this.agentId) and the threshold
\* test.
ProcessMark(t) ==
    /\ pc[t] = "handlers"
    /\ todo[t] = <<>> /\ running[t] = {}
    /\ LET event == Head(events[t])
           me == AgentId(t)
           marked == [event EXCEPT !.processedBy = Append(@, me)]
       IN  /\ invoked' = [invoked EXCEPT ![me][event.id] =
                            IF Handlers(me, event.type) = <<>> THEN @ ELSE Bump(@)]
           /\ events' = [events EXCEPT ![t] = <<marked>> \o Tail(events[t])]
           /\ pc' = [pc EXCEPT ![t] =
                        IF AllAgentsProcessed(marked) THEN "mv_read" ELSE "up_access"]
    /\ UNCHANGED <<pending, temp, processed, corrupted, files, buf, handled,
                   thrown, faulted, running, todo>>

\* moveToProcessed: fs.access(sourcePath) and fs.readFile(sourcePath).  A
\* source that is gone at either call ends in the same catch, so the two
\* are one step, taken when the read happens.
MoveRead(t) ==
    /\ pc[t] = "mv_read"
    /\ LET id == Head(events[t]).id
       IN  IF pending[id].exists
           THEN /\ buf' = [buf EXCEPT ![t] = pending[id].text]
                /\ pc' = [pc EXCEPT ![t] = "mv_open"]
                /\ UNCHANGED events
           ELSE /\ NextEvent(t)
                /\ UNCHANGED buf
    /\ UNCHANGED <<pending, temp, processed, corrupted, files, invoked, handled, thrown, faulted>>

\* fs.writeFile(destPath, content): open with truncation ...
MoveOpen(t) ==
    /\ pc[t] = "mv_open"
    /\ LET id == Head(events[t]).id
       IN  processed' = [processed EXCEPT ![id] = OpenTrunc(processed[id], t)]
    /\ pc' = [pc EXCEPT ![t] = "mv_write"]
    /\ UNCHANGED <<pending, temp, corrupted, files, events, buf, invoked, handled, thrown, faulted>>

\* ... then write and close.
MoveWrite(t) ==
    /\ pc[t] = "mv_write"
    /\ \E torn \in BOOLEAN : processed' = WriteIn(processed, t, buf[t], torn)
    /\ pc' = [pc EXCEPT ![t] = "mv_unlink"]
    /\ UNCHANGED <<pending, temp, corrupted, files, events, buf, invoked, handled, thrown, faulted>>

\* Fault: a move whose unlink of a source that is gone is not caught.
MoveUnlinkUncaught(t) ==
    /\ pc[t] = "mv_unlink"
    /\ LET id == Head(events[t]).id
       IN  IF pending[id].exists
           THEN /\ pending' = [pending EXCEPT ![id] = NoFile]
                /\ NextEvent(t)
                /\ UNCHANGED thrown
           ELSE /\ PollThrows(t)
                /\ UNCHANGED pending
    /\ buf' = [buf EXCEPT ![t] = Corrupt]
    /\ UNCHANGED <<temp, processed, corrupted, files, invoked, handled, faulted>>

\* fs.unlink(sourcePath); a source gone by now throws to the inner catch.
MoveUnlink(t) ==
    /\ pc[t] = "mv_unlink"
    /\ LET id == Head(events[t]).id
       IN  pending' = [pending EXCEPT ![id] = NoFile]
    /\ NextEvent(t)
    /\ buf' = [buf EXCEPT ![t] = Corrupt]
    /\ UNCHANGED <<temp, processed, corrupted, files, invoked, handled, thrown, faulted>>

\* Fault: an update that opens the final file itself, not a temp file.
UpdateOpenInPlace(t) ==
    /\ pc[t] = "up_open"
    /\ LET id == Head(events[t]).id
       IN  pending' = [pending EXCEPT ![id] = OpenTrunc(pending[id], t)]
    /\ pc' = [pc EXCEPT ![t] = "up_write"]
    /\ UNCHANGED <<temp, processed, corrupted, files, events, buf, invoked, handled, thrown, faulted>>

\* The update branch: fs.access(eventFilePath); a file that is gone is
\* taken as archived by another agent.
UpdateAccess(t) ==
    /\ pc[t] = "up_access"
    /\ LET id == Head(events[t]).id
       IN  IF pending[id].exists
           THEN /\ pc' = [pc EXCEPT ![t] = "up_open"]
                /\ UNCHANGED events
           ELSE NextEvent(t)
    /\ UNCHANGED <<pending, temp, processed, corrupted, files, buf, invoked, handled, thrown, faulted>>

\* fs.writeFile(tempFilePath, JSON.stringify(event)): open with truncation ...
UpdateOpen(t) ==
    /\ pc[t] = "up_open"
    /\ LET id == Head(events[t]).id
       IN  temp' = [temp EXCEPT ![id] = OpenTrunc(temp[id], t)]
    /\ pc' = [pc EXCEPT ![t] = "up_write"]
    /\ UNCHANGED <<pending, processed, corrupted, files, events, buf, invoked, handled, thrown, faulted>>

\* ... then write and close.
UpdateWrite(t) ==
    /\ pc[t] = "up_write"
    /\ \E torn \in BOOLEAN :
        LET text == Stringify(Head(events[t]))
        IN  /\ temp' = WriteIn(temp, t, text, torn)
            /\ pending' = WriteIn(pending, t, text, torn)
            /\ corrupted' = WriteIn(corrupted, t, text, torn)
    /\ pc' = [pc EXCEPT ![t] = "up_rename"]
    /\ UNCHANGED <<processed, files, events, buf, invoked, handled, thrown, faulted>>

\* fs.rename(tempFilePath, eventFilePath); a temp file gone by now throws to
\* the inner catch.
UpdateRename(t) ==
    /\ pc[t] = "up_rename"
    /\ LET id == Head(events[t]).id
       IN  IF temp[id].exists
           THEN /\ pending' = [pending EXCEPT ![id] = temp[id]]
                /\ temp' = [temp EXCEPT ![id] = NoFile]
           ELSE UNCHANGED <<pending, temp>>
    /\ NextEvent(t)
    /\ UNCHANGED <<processed, corrupted, files, buf, invoked, handled, thrown, faulted>>

(* ------------------------------------------------------------------ *)
(* subscribe, startPolling, the interval timer, stopPolling             *)
(* ------------------------------------------------------------------ *)

\* Handlers registered per type are counted up to here.
MaxHandlers == 2

\* Interval timers of one bus alive at a time are counted up to here.
MaxTimers == 2

\* subscribe(eventType, handler): the handler joins the end of the type's
\* list (created when missing).
Subscribe(b, type, h) ==
    /\ Len(handlers[b][type]) < MaxHandlers
    /\ ~InSeq(h, handlers[b][type])
    /\ handlers' = [handlers EXCEPT ![b][type] = Append(@, h)]
    /\ UNCHANGED <<pending, temp, processed, corrupted, pc, files, events, buf,
                   invoked, handled, thrown, faulted, failing>>

\* startPolling() on a bus that is not polling (a polling bus warns and
\* returns): isPolling is set, the initial poll() is called and awaited.
StartPolling(b, t) ==
    /\ ~isPolling[b]
    /\ t \in Cycles(b) \ awaiting[b]
    /\ isPolling' = [isPolling EXCEPT ![b] = TRUE]
    /\ awaiting' = [awaiting EXCEPT ![b] = @ \cup {t}]
    /\ PollReaddir(t)
    /\ UNCHANGED <<pollingTimer, timers>>

\* startPolling() whose initial poll() rejects: the await throws, and
\* startPolling() rejects before it reaches setInterval.
StartPollingFails(b, t) ==
    /\ ~isPolling[b]
    /\ t \in Cycles(b) \ awaiting[b]
    /\ isPolling' = [isPolling EXCEPT ![b] = TRUE]
    /\ PollReaddirFails(t)
    /\ UNCHANGED <<pollingTimer, timers, awaiting>>

\* startPolling() after its initial poll() has returned: setInterval, and
\* the timer is kept in this.pollingTimer (replacing the one held there).
ArmTimer(b, t) ==
    /\ t \in awaiting[b]
    /\ pc[t] = "idle"
    /\ timers[b] < MaxTimers
    /\ awaiting' = [awaiting EXCEPT ![b] = @ \ {t}]
    /\ pollingTimer' = [pollingTimer EXCEPT ![b] = TRUE]
    /\ timers' = [timers EXCEPT ![b] = @ + 1]
    /\ UNCHANGED <<pending, temp, processed, corrupted, pc, files, events, buf,
                   invoked, handled, thrown, faulted, isPolling>>

\* A tick of an interval timer: the callback calls this.poll(), whether or
\* not an earlier cycle of the bus is still in flight.
TimerTick(b, t) ==
    /\ timers[b] > 0
    /\ t \in Cycles(b) \ awaiting[b]
    /\ PollReaddir(t)
    /\ UNCHANGED <<isPolling, pollingTimer, timers, awaiting>>

\* A tick whose poll() rejects: the callback's .catch logs the error.
TimerTickFails(b, t) ==
    /\ timers[b] > 0
    /\ t \in Cycles(b) \ awaiting[b]
    /\ PollReaddirFails(t)
    /\ UNCHANGED <<isPolling, pollingTimer, timers, awaiting>>

\* stopPolling() on a polling bus (an idle bus returns at once): the timer
\* held in this.pollingTimer is cleared, isPolling is reset.  A poll cycle
\* in flight goes on.
StopPolling(b) ==
    /\ isPolling[b]
    /\ IF pollingTimer[b]
       THEN /\ timers' = [timers EXCEPT ![b] = @ - 1]
            /\ pollingTimer' = [pollingTimer EXCEPT ![b] = FALSE]
       ELSE UNCHANGED <<timers, pollingTimer>>
    /\ isPolling' = [isPolling EXCEPT ![b] = FALSE]
    /\ UNCHANGED <<pending, temp, processed, corrupted, pc, files, events, buf,
                   invoked, handled, thrown, faulted, awaiting>>

(* ------------------------------------------------------------------ *)
(* The death of a consumer process                                      *)
(* ------------------------------------------------------------------ *)

\* Kills are counted up to here.
MaxKills == 2

\* The files of a directory after the tasks ts are gone: their descriptors
\* are closed, a file they had opened and not written stays as it is.
Closed(dir, ts) ==
    [id \in Ids |-> [dir[id] EXCEPT !.writers = @ \ ts]]

\* The process of bus b is killed (SIGKILL) wherever its poll
\* cycles are: its memory and timers are gone, the store keeps what the
\* completed file operations left.  The restarted process constructs a bus
\* that is not polling.
Kill(b) ==
    /\ \E t \in Cycles(b) : pc[t] # "idle"
    /\ pc' = [t \in Tasks |-> IF t \in Cycles(b) THEN "idle" ELSE pc[t]]
    /\ files' = [t \in Tasks |-> IF t \in Cycles(b) THEN <<>> ELSE files[t]]
    /\ events' = [t \in Tasks |-> IF t \in Cycles(b) THEN <<>> ELSE events[t]]
    /\ buf' = [t \in Tasks |-> IF t \in Cycles(b) THEN Corrupt ELSE buf[t]]
    /\ pending' = Closed(pending, Cycles(b))
    /\ temp' = Closed(temp, Cycles(b))
    /\ processed' = Closed(processed, Cycles(b))
    /\ corrupted' = Closed(corrupted, Cycles(b))
    /\ isPolling' = [isPolling EXCEPT ![b] = FALSE]
    /\ pollingTimer' = [pollingTimer EXCEPT ![b] = FALSE]
    /\ timers' = [timers EXCEPT ![b] = 0]
    /\ awaiting' = [awaiting EXCEPT ![b] = {}]
    /\ UNCHANGED <<invoked, handled, thrown, faulted, handlers, failing>>

(* ------------------------------------------------------------------ *)
(* Construction of an agent and of its bus                              *)
(* ------------------------------------------------------------------ *)

\* eventsDir, pendingDir and processedDir of the marketplace root.
Directories == {"events", "pending", "processed"}

\* fs.mkdir(dir, { recursive: true }) creates the directory and the
\* parents it lacks: pendingDir and processedDir lie in eventsDir.
Made(dir) == {"events", dir}

\* ensureDirectories(): the mkdir awaited after that of `dir` has resolved.
AfterMkdir(dir) ==
    CASE dir = "events" -> "pending"
      [] dir = "pending" -> "processed"
      [] OTHER -> "done"

\* Fault: a constructor that returns without setupEventHandlers().
ConstructBare(b) ==
    /\ runtime[b] = "none"
    /\ runtime' = [runtime EXCEPT ![b] = "ready"]
    /\ handlers' = [handlers EXCEPT ![b] = [type \in EventTypes |-> <<>>]]
    /\ ensure' = [ensure EXCEPT ![b] = "events"]
    /\ isPolling' = [isPolling EXCEPT ![b] = FALSE]
    /\ UNCHANGED <<pending, temp, processed, corrupted, pc, files, events, buf,
                   invoked, handled, thrown, faulted, failing, pollingTimer,
                   timers, awaiting, dirs>>

\* new Agent(): the AgentSubscriber constructor makes the bus, whose
\* constructor empties the registry, resets isPolling and calls
\* ensureDirectories() without awaiting it (the call runs up to its first
\* mkdir and returns a promise nothing holds); then setupEventHandlers()
\* subscribes the agent's handlers.  All of it is one synchronous run.
Construct(b) ==
    /\ runtime[b] = "none"
    /\ runtime' = [runtime EXCEPT ![b] = "ready"]
    /\ handlers' = [handlers EXCEPT ![b] =
                        [type \in EventTypes |-> SetupEventHandlers(b, type)]]
    /\ ensure' = [ensure EXCEPT ![b] = "events"]
    /\ isPolling' = [isPolling EXCEPT ![b] = FALSE]
    /\ UNCHANGED <<pending, temp, processed, corrupted, pc, files, events, buf,
                   invoked, handled, thrown, faulted, failing, pollingTimer,
                   timers, awaiting, dirs>>

\* The mkdir ensureDirectories() awaits resolves (a directory already there
\* is no error), and the next one is issued.
Mkdir(b) ==
    /\ ensure[b] \in Directories
    /\ dirs' = dirs \cup Made(ensure[b])
    /\ ensure' = [ensure EXCEPT ![b] = AfterMkdir(@)]
    /\ UNCHANGED <<pending, temp, processed, corrupted, pc, files, events, buf,
                   invoked, handled, thrown, faulted, handlers, failing, isPolling,
                   pollingTimer, timers, awaiting, runtime>>

\* The mkdir rejects (no permission, disk full): the catch logs and
\* rethrows, and the promise of ensureDirectories() rejects.
MkdirFails(b) ==
    /\ ensure[b] \in Directories
    /\ ensure[b] \notin dirs
    /\ ensure' = [ensure EXCEPT ![b] = "failed"]
    /\ UNCHANGED <<pending, temp, processed, corrupted, pc, files, events, buf,
                   invoked, handled, thrown, faulted, handlers, failing, isPolling,
                   pollingTimer, timers, awaiting, runtime, dirs>>

\* The rejection of ensureDirectories() has no handler.  A runtime that
\* throws on unhandled rejections ends the process here; one that only
\* warns goes on (no step).
RejectionExits(b) ==
    /\ ensure[b] = "failed"
    /\ runtime[b] = "ready"
    /\ runtime' = [runtime EXCEPT ![b] = "exited"]
    /\ pc' = [t \in Tasks |-> IF t \in Cycles(b) THEN "idle" ELSE pc[t]]
    /\ files' = [t \in Tasks |-> IF t \in Cycles(b) THEN <<>> ELSE files[t]]
    /\ events' = [t \in Tasks |-> IF t \in Cycles(b) THEN <<>> ELSE events[t]]
    /\ buf' = [t \in Tasks |-> IF t \in Cycles(b) THEN Corrupt ELSE buf[t]]
    /\ pending' = Closed(pending, Cycles(b))
    /\ temp' = Closed(temp, Cycles(b))
    /\ processed' = Closed(processed, Cycles(b))
    /\ corrupted' = Closed(corrupted, Cycles(b))
    /\ isPolling' = [isPolling EXCEPT ![b] = FALSE]
    /\ pollingTimer' = [pollingTimer EXCEPT ![b] = FALSE]
    /\ timers' = [timers EXCEPT ![b] = 0]
    /\ awaiting' = [awaiting EXCEPT ![b] = {}]
    /\ UNCHANGED <<invoked, handled, thrown, faulted, handlers, failing, ensure, dirs>>

\* startEventListener() of a constructed agent: startPolling(), whose
\* readdir finds pendingDir or rejects with ENOENT.
StartEventListener(b, t) ==
    /\ runtime[b] = "ready"
    /\ IF "pending" \in dirs THEN StartPolling(b, t) ELSE StartPollingFails(b, t)

(* ------------------------------------------------------------------ *)
(* Storage failures in the update and the move                          *)
(* ------------------------------------------------------------------ *)

\* Fault: a catch that logs and rethrows, as processEvent()'s outer one.
PollUncaught(t) ==
    /\ events' = [events EXCEPT ![t] = <<>>]
    /\ pc' = [pc EXCEPT ![t] = "idle"]
    /\ thrown' = thrown \cup {t}
    /\ faulted' = [faulted EXCEPT ![t] = @ \cup {Head(events[t]).id}]

\* A file operation of the update or of the move rejects: the catch around
\* it logs, and the process loop goes on with the next event.
PollCaught(t) ==
    /\ NextEvent(t)
    /\ faulted' = [faulted EXCEPT ![t] = @ \cup {Head(events[t]).id}]
    /\ UNCHANGED thrown

\* fs.writeFile(tempFilePath, ...) of the update rejects at the open.
UpdateOpenFails(t) ==
    /\ pc[t] = "up_open"
    /\ PollCaught(t)
    /\ UNCHANGED <<pending, temp, processed, corrupted, files, buf, invoked, handled>>

\* ... or at the write: the temp file stays as the open left it.
UpdateWriteFails(t) ==
    /\ pc[t] = "up_write"
    /\ temp' = Closed(temp, {t})
    /\ pending' = Closed(pending, {t})
    /\ corrupted' = Closed(corrupted, {t})
    /\ PollCaught(t)
    /\ UNCHANGED <<processed, files, buf, invoked, handled>>

\* fs.rename(tempFilePath, eventFilePath) of the update rejects.
UpdateRenameFails(t) ==
    /\ pc[t] = "up_rename"
    /\ PollCaught(t)
    /\ UNCHANGED <<pending, temp, processed, corrupted, files, buf, invoked, handled>>

\* fs.readFile(sourcePath) of the move rejects.
MoveReadFails(t) ==
    /\ pc[t] = "mv_read"
    /\ PollCaught(t)
    /\ UNCHANGED <<pending, temp, processed, corrupted, files, buf, invoked, handled>>

\* fs.writeFile(destPath, content) rejects at the open.
MoveOpenFails(t) ==
    /\ pc[t] = "mv_open"
    /\ PollCaught(t)
    /\ buf' = [buf EXCEPT ![t] = Corrupt]
    /\ UNCHANGED <<pending, temp, processed, corrupted, files, invoked, handled>>

\* ... or at the write: the archive file stays as the open left it.
MoveWriteFails(t) ==
    /\ pc[t] = "mv_write"
    /\ processed' = Closed(processed, {t})
    /\ PollCaught(t)
    /\ buf' = [buf EXCEPT ![t] = Corrupt]
    /\ UNCHANGED <<pending, temp, corrupted, files, invoked, handled>>

\* fs.unlink(sourcePath) rejects: the source stays.
MoveUnlinkFails(t) ==
    /\ pc[t] = "mv_unlink"
    /\ PollCaught(t)
    /\ buf' = [buf EXCEPT ![t] = Corrupt]
    /\ UNCHANGED <<pending, temp, processed, corrupted, files, invoked, handled>>

(* ------------------------------------------------------------------ *)
(* Records the callers publish                                          *)
(* ------------------------------------------------------------------ *)

EventsOf(ids, types, stamps, payloads, marks) ==
    [id : ids, type : types, timestamp : stamps, sourceAgent : {"hiring"},
     targetAgent : {""}, payload : payloads, processedBy : marks,
     status : {"pending"}]

\* One broadcast record, as createJob publishes it.
ConcInputs == EventsOf({"e1"}, {"JOB_CREATED"}, {1}, {"job-1"}, {<<>>})

\* Records of two ids and two types; the later id is the older record.
SeqInputs ==
    EventsOf({"e1"}, {"JOB_CREATED"}, {2}, {"job-1"}, {<<>>})
        \cup EventsOf({"e2"}, {"WORK_SUBMITTED"}, {1}, {"job-2"}, {<<>>})

\* The end-to-end scenario's record: JOB_CREATED for job-1, and a second
\* publish under the same id.
DeployInputs == EventsOf({"e1"}, {"JOB_CREATED"}, {1}, {"job-1", "job-2"}, {<<>>})

\* Colliding ids with differing payloads, and records that leave the id, the
\* timestamp or processedBy to publish().
PubInputs ==
    EventsOf({"e1", ""}, {"JOB_CREATED"}, {0, 1}, {"job-1", "job-2"},
             {<<>>, NoProcessedBy})

\* Records with every optional and defaulted field given or left out: id
\* '' and timestamp '' stand for a field left to publish(), as in
\* example-usage.ts.
AnyInputs ==
    [id : {"", "e1"}, type : {"JOB_CREATED", "DISPUTE_FILED"},
     timestamp : {0} \cup Timestamps, sourceAgent : {"hiring", "worker"},
     targetAgent : {"", "arbitrator"}, payload : {"job-1", "job-2"},
     processedBy : {NoProcessedBy, <<>>, <<"hiring">>},
     status : {"", "pending", "processed"}]

(* ------------------------------------------------------------------ *)
(* History of the calls                                                 *)
(* ------------------------------------------------------------------ *)

\* publish() calls per id are counted up to here.
MaxCalls == 2

\* A step of task t in a run whose calls do not overlap: which call
\* returned last, and what the poll cycle found in pending when it started.
SeqHistory(t) ==
    /\ last' = IF pc'[t] = "idle" THEN t ELSE last
    /\ pre' = IF t \in Bus /\ pc[t] = "idle" THEN pending ELSE pre

\* A step of task t in a run whose calls do not overlap: the buses that have
\* completed a poll cycle since a publish call last created a record.
DeployHistory(t) ==
    polled' = IF t \in Pub /\ pending' # pending THEN {}
              ELSE IF t \in Bus /\ pc'[t] = "idle" THEN polled \cup {t}
              ELSE polled

\* A step of a publish call t: the calls that returned, per id, and the
\* text of the first of them.
PublishHistory(t) ==
    LET id == buf'[t].json.id
    IN  /\ npub' = IF pc'[t] = "idle" /\ npub[id] < MaxCalls
                   THEN [npub EXCEPT ![id] = @ + 1] ELSE npub
        /\ firstPub' = IF pc'[t] = "idle" /\ npub[id] = 0
                       THEN [firstPub EXCEPT ![id] = buf'[t]] ELSE firstPub

\* A publish call t begins: the record it was made with, and the agent
\* runtime it was made through ("" for a call on the bus itself).
CallHistory(t, input, by) ==
    given' = [given EXCEPT ![t] = [event |-> input, by |-> by]]

\* No other call is in flight.
Exclusive(t) == \A u \in Tasks \ {t} : pc[u] = "idle"

(* ------------------------------------------------------------------ *)
(* Specifications                                                       *)
(* ------------------------------------------------------------------ *)

EmptyDir == [id \in Ids |-> NoFile]

InitLocals ==
    /\ pc = [t \in Tasks |-> "idle"]
    /\ files = [t \in Tasks |-> <<>>]
    /\ events = [t \in Tasks |-> <<>>]
    /\ buf = [t \in Tasks |-> Corrupt]
    /\ invoked = [b \in Bus |-> [id \in Ids |-> 0]]
    /\ handled = [b \in Bus |-> [id \in Ids |-> <<>>]]
    /\ thrown = {}
    /\ faulted = [t \in Tasks |-> {}]
    /\ running = [t \in Tasks |-> {}]
    /\ todo = [t \in Tasks |-> <<>>]

\* The registry after each agent's constructor ran setupEventHandlers();
\* no handler throws.
InitRegistry ==
    /\ handlers = [b \in Bus |-> [type \in EventTypes |-> SetupEventHandlers(b, type)]]
    /\ failing = {}

\* Every bus constructed, none started.
InitStopped ==
    /\ isPolling = [b \in Bus |-> FALSE]
    /\ pollingTimer = [b \in Bus |-> FALSE]
    /\ timers = [b \in Bus |-> 0]
    /\ awaiting = [b \in Bus |-> {}]

\* Every bus started: startPolling() has run its initial poll (of an empty
\* directory) and armed its timer.
InitStarted ==
    /\ isPolling = [b \in Bus |-> TRUE]
    /\ pollingTimer = [b \in Bus |-> TRUE]
    /\ timers = [b \in Bus |-> 1]
    /\ awaiting = [b \in Bus |-> {}]

\* Every agent constructed and its ensureDirectories() returned: the three
\* directories exist.
InitBooted ==
    /\ runtime = [b \in Bus |-> "ready"]
    /\ ensure = [b \in Bus |-> "done"]
    /\ dirs = Directories

\* No publish call made yet.
NoCall == [event |-> NullEvent, by |-> ""]

InitHistory ==
    /\ kills = 0
    /\ pre = EmptyDir
    /\ last = "none"
    /\ polled = {}
    /\ firstPub = [id \in Ids |-> Corrupt]
    /\ npub = [id \in Ids |-> 0]
    /\ given = [t \in Pub |-> NoCall]

\* After construction: ensureDirectories() has made the two empty
\* directories, no call is in flight.
Init ==
    /\ pending = EmptyDir
    /\ temp = EmptyDir
    /\ processed = EmptyDir
    /\ corrupted = EmptyDir
    /\ InitLocals
    /\ InitRegistry
    /\ InitStarted
    /\ InitBooted
    /\ InitHistory

\* The three services polling while records are published, every awaited
\* file operation a step of its own.
Next ==
    \/ \E t \in Services :
        \/ PollReaddir(t) /\ UNCHANGED hist /\ UNCHANGED fixed
        \/ PollReadFile(t) /\ UNCHANGED hist /\ UNCHANGED fixed
        \/ PollQuarantine(t) /\ UNCHANGED hist /\ UNCHANGED fixed
        \/ PollDispatch(t) /\ UNCHANGED hist /\ UNCHANGED fixed
        \/ MoveRead(t) /\ UNCHANGED hist /\ UNCHANGED fixed
        \/ MoveOpen(t) /\ UNCHANGED hist /\ UNCHANGED fixed
        \/ MoveWrite(t) /\ UNCHANGED hist /\ UNCHANGED fixed
        \/ MoveUnlink(t) /\ UNCHANGED hist /\ UNCHANGED fixed
        \/ UpdateAccess(t) /\ UNCHANGED hist /\ UNCHANGED fixed
        \/ UpdateOpen(t) /\ UNCHANGED hist /\ UNCHANGED fixed
        \/ UpdateWrite(t) /\ UNCHANGED hist /\ UNCHANGED fixed
        \/ UpdateRename(t) /\ UNCHANGED hist /\ UNCHANGED fixed
    \/ \E t \in {"pub1"} :
        \/ \E input \in ConcInputs :
            /\ npub[input.id] = 0
            /\ PublishBegin(t, input) /\ PublishHistory(t)
            /\ UNCHANGED <<pre, last, polled, given>> /\ UNCHANGED fixed
        \/ PublishOpen(t) /\ PublishHistory(t) /\ UNCHANGED <<pre, last, polled, given>> /\ UNCHANGED fixed
        \/ PublishWrite(t) /\ PublishHistory(t) /\ UNCHANGED <<pre, last, polled, given>> /\ UNCHANGED fixed
        \/ PublishReadBack(t) /\ PublishHistory(t) /\ UNCHANGED <<pre, last, polled, given>> /\ UNCHANGED fixed
        \/ PublishRename(t) /\ PublishHistory(t) /\ UNCHANGED <<pre, last, polled, given>> /\ UNCHANGED fixed

Spec == Init /\ [][Next]_vars

\* The steps of the poll cycles of task t.
PollSteps(t) ==
    /\ \/ PollReaddir(t) \/ PollReadFile(t) \/ PollQuarantine(t)
       \/ PollDispatch(t)
       \/ MoveRead(t) \/ MoveOpen(t) \/ MoveWrite(t) \/ MoveUnlink(t)
       \/ UpdateAccess(t) \/ UpdateOpen(t) \/ UpdateWrite(t) \/ UpdateRename(t)
    /\ UNCHANGED hist /\ UNCHANGED fixed

\* The steps of a publish call in flight.
PublishSteps(t) ==
    /\ \/ PublishOpen(t) \/ PublishWrite(t) \/ PublishReadBack(t)
       \/ PublishRename(t)
    /\ PublishHistory(t)
    /\ UNCHANGED <<pre, last, polled, given>> /\ UNCHANGED fixed

\* The same, with the scheduling the processes have: each service's timer
\* keeps ticking and every awaited file operation completes, so no poll
\* cycle and no publish call in flight waits for ever.
FairSpec ==
    /\ Init /\ [][Next]_vars
    /\ \A t \in Services : WF_vars(PollSteps(t))
    /\ WF_vars(PublishSteps("pub1"))

\* The three services and a publisher, one call at a time: a poll cycle or
\* a publish call runs to its return before the next call starts.
SeqNext ==
    \/ \E t \in Services :
        \/ Exclusive(t) /\ PollReaddir(t) /\ SeqHistory(t) /\ UNCHANGED <<polled, firstPub, npub, given>> /\ UNCHANGED fixed
        \/ Exclusive(t) /\ PollReadFile(t) /\ SeqHistory(t) /\ UNCHANGED <<polled, firstPub, npub, given>> /\ UNCHANGED fixed
        \/ Exclusive(t) /\ PollDispatch(t) /\ SeqHistory(t) /\ UNCHANGED <<polled, firstPub, npub, given>> /\ UNCHANGED fixed
        \/ Exclusive(t) /\ MoveRead(t) /\ SeqHistory(t) /\ UNCHANGED <<polled, firstPub, npub, given>> /\ UNCHANGED fixed
        \/ Exclusive(t) /\ MoveOpen(t) /\ SeqHistory(t) /\ UNCHANGED <<polled, firstPub, npub, given>> /\ UNCHANGED fixed
        \/ Exclusive(t) /\ MoveWrite(t) /\ SeqHistory(t) /\ UNCHANGED <<polled, firstPub, npub, given>> /\ UNCHANGED fixed
        \/ Exclusive(t) /\ MoveUnlink(t) /\ SeqHistory(t) /\ UNCHANGED <<polled, firstPub, npub, given>> /\ UNCHANGED fixed
        \/ Exclusive(t) /\ UpdateAccess(t) /\ SeqHistory(t) /\ UNCHANGED <<polled, firstPub, npub, given>> /\ UNCHANGED fixed
        \/ Exclusive(t) /\ UpdateOpen(t) /\ SeqHistory(t) /\ UNCHANGED <<polled, firstPub, npub, given>> /\ UNCHANGED fixed
        \/ Exclusive(t) /\ UpdateWrite(t) /\ SeqHistory(t) /\ UNCHANGED <<polled, firstPub, npub, given>> /\ UNCHANGED fixed
        \/ Exclusive(t) /\ UpdateRename(t) /\ SeqHistory(t) /\ UNCHANGED <<polled, firstPub, npub, given>> /\ UNCHANGED fixed
    \/ \E t \in {"pub1"} :
        \/ \E input \in SeqInputs :
            /\ Exclusive(t) /\ PublishBegin(t, input) /\ SeqHistory(t)
            /\ UNCHANGED <<polled, firstPub, npub, given>> /\ UNCHANGED fixed
        \/ Exclusive(t) /\ PublishOpen(t) /\ SeqHistory(t) /\ UNCHANGED <<polled, firstPub, npub, given>> /\ UNCHANGED fixed
        \/ Exclusive(t) /\ PublishWrite(t) /\ SeqHistory(t) /\ UNCHANGED <<polled, firstPub, npub, given>> /\ UNCHANGED fixed
        \/ Exclusive(t) /\ PublishReadBack(t) /\ SeqHistory(t) /\ UNCHANGED <<polled, firstPub, npub, given>> /\ UNCHANGED fixed
        \/ Exclusive(t) /\ PublishRename(t) /\ SeqHistory(t) /\ UNCHANGED <<polled, firstPub, npub, given>> /\ UNCHANGED fixed

SeqSpec == Init /\ [][SeqNext]_vars

\* The whole deployment, the orchestrator's bus and the three services', and
\* a publisher, one call at a time.
DeployNext ==
    \/ \E t \in Bus :
        \/ Exclusive(t) /\ PollReaddir(t) /\ DeployHistory(t) /\ UNCHANGED <<pre, last, firstPub, npub, given>> /\ UNCHANGED fixed
        \/ Exclusive(t) /\ PollReadFile(t) /\ DeployHistory(t) /\ UNCHANGED <<pre, last, firstPub, npub, given>> /\ UNCHANGED fixed
        \/ Exclusive(t) /\ PollDispatch(t) /\ DeployHistory(t) /\ UNCHANGED <<pre, last, firstPub, npub, given>> /\ UNCHANGED fixed
        \/ Exclusive(t) /\ MoveRead(t) /\ DeployHistory(t) /\ UNCHANGED <<pre, last, firstPub, npub, given>> /\ UNCHANGED fixed
        \/ Exclusive(t) /\ MoveOpen(t) /\ DeployHistory(t) /\ UNCHANGED <<pre, last, firstPub, npub, given>> /\ UNCHANGED fixed
        \/ Exclusive(t) /\ MoveWrite(t) /\ DeployHistory(t) /\ UNCHANGED <<pre, last, firstPub, npub, given>> /\ UNCHANGED fixed
        \/ Exclusive(t) /\ MoveUnlink(t) /\ DeployHistory(t) /\ UNCHANGED <<pre, last, firstPub, npub, given>> /\ UNCHANGED fixed
        \/ Exclusive(t) /\ UpdateAccess(t) /\ DeployHistory(t) /\ UNCHANGED <<pre, last, firstPub, npub, given>> /\ UNCHANGED fixed
        \/ Exclusive(t) /\ UpdateOpen(t) /\ DeployHistory(t) /\ UNCHANGED <<pre, last, firstPub, npub, given>> /\ UNCHANGED fixed
        \/ Exclusive(t) /\ UpdateWrite(t) /\ DeployHistory(t) /\ UNCHANGED <<pre, last, firstPub, npub, given>> /\ UNCHANGED fixed
        \/ Exclusive(t) /\ UpdateRename(t) /\ DeployHistory(t) /\ UNCHANGED <<pre, last, firstPub, npub, given>> /\ UNCHANGED fixed
    \/ \E t \in {"pub1"} :
        \/ \E input \in DeployInputs :
            /\ Exclusive(t) /\ PublishBegin(t, input) /\ DeployHistory(t)
            /\ UNCHANGED <<pre, last, firstPub, npub, given>> /\ UNCHANGED fixed
        \/ Exclusive(t) /\ PublishOpen(t) /\ DeployHistory(t) /\ UNCHANGED <<pre, last, firstPub, npub, given>> /\ UNCHANGED fixed
        \/ Exclusive(t) /\ PublishWrite(t) /\ DeployHistory(t) /\ UNCHANGED <<pre, last, firstPub, npub, given>> /\ UNCHANGED fixed
        \/ Exclusive(t) /\ PublishReadBack(t) /\ DeployHistory(t) /\ UNCHANGED <<pre, last, firstPub, npub, given>> /\ UNCHANGED fixed
        \/ Exclusive(t) /\ PublishRename(t) /\ DeployHistory(t) /\ UNCHANGED <<pre, last, firstPub, npub, given>> /\ UNCHANGED fixed

DeploySpec == Init /\ [][DeployNext]_vars

\* Records found pending by a bus that starts late: any of the services may
\* have marked them, in any order.
Marks ==
    {m \in UNION {[1..n -> Services] : n \in 0..ExpectedConsumers} :
        \A i, j \in 1..Len(m) : i # j => m[i] # m[j]}

SoloFiles(id) ==
    {NoFile} \cup
    {[exists |-> TRUE, text |-> Stringify(e), writers |-> {}] :
        e \in EventsOf({id} \ {"e3"}, {"JOB_CREATED", "WORK_SUBMITTED"}, {1},
                       {"job-1"}, Marks)}

\* The pending directories such a bus may find.
SoloDirs ==
    {[id \in Ids |-> IF id = "e1" THEN f1 ELSE IF id = "e2" THEN f2 ELSE f3] :
        f1 \in SoloFiles("e1"), f2 \in SoloFiles("e2"), f3 \in SoloFiles("e3")}

SoloInit ==
    /\ pending \in SoloDirs
    /\ temp = EmptyDir
    /\ processed = EmptyDir
    /\ corrupted = EmptyDir
    /\ InitLocals
    /\ InitRegistry
    /\ InitStarted
    /\ InitBooted
    /\ InitHistory

\* The only task that has ever returned is t.
Solo(t) == Exclusive(t) /\ last \in {"none", t}

\* One bus polls, cycle after cycle; nothing else touches the store.
SoloNext ==
    \E t \in Bus :
        \/ Solo(t) /\ PollReaddir(t) /\ SeqHistory(t) /\ UNCHANGED <<polled, firstPub, npub, given>> /\ UNCHANGED fixed
        \/ Solo(t) /\ PollReadFile(t) /\ SeqHistory(t) /\ UNCHANGED <<polled, firstPub, npub, given>> /\ UNCHANGED fixed
        \/ Solo(t) /\ PollDispatch(t) /\ SeqHistory(t) /\ UNCHANGED <<polled, firstPub, npub, given>> /\ UNCHANGED fixed
        \/ Solo(t) /\ MoveRead(t) /\ SeqHistory(t) /\ UNCHANGED <<polled, firstPub, npub, given>> /\ UNCHANGED fixed
        \/ Solo(t) /\ MoveOpen(t) /\ SeqHistory(t) /\ UNCHANGED <<polled, firstPub, npub, given>> /\ UNCHANGED fixed
        \/ Solo(t) /\ MoveWrite(t) /\ SeqHistory(t) /\ UNCHANGED <<polled, firstPub, npub, given>> /\ UNCHANGED fixed
        \/ Solo(t) /\ MoveUnlink(t) /\ SeqHistory(t) /\ UNCHANGED <<polled, firstPub, npub, given>> /\ UNCHANGED fixed
        \/ Solo(t) /\ UpdateAccess(t) /\ SeqHistory(t) /\ UNCHANGED <<polled, firstPub, npub, given>> /\ UNCHANGED fixed
        \/ Solo(t) /\ UpdateOpen(t) /\ SeqHistory(t) /\ UNCHANGED <<polled, firstPub, npub, given>> /\ UNCHANGED fixed
        \/ Solo(t) /\ UpdateWrite(t) /\ SeqHistory(t) /\ UNCHANGED <<polled, firstPub, npub, given>> /\ UNCHANGED fixed
        \/ Solo(t) /\ UpdateRename(t) /\ SeqHistory(t) /\ UNCHANGED <<polled, firstPub, npub, given>> /\ UNCHANGED fixed

SoloSpec == SoloInit /\ [][SoloNext]_vars

\* Timestamps of the records of a batch are drawn from 1..MaxBatchTs.
MaxBatchTs == 3

\* What a bus that starts late may find under a final pending name: no
\* file, a file that does not parse, or a JOB_CREATED record, unmarked,
\* marked by the two other services, or marked by the worker's bus.
BatchFiles(id) ==
    {NoFile, [exists |-> TRUE, text |-> Corrupt, writers |-> {}]} \cup
    {[exists |-> TRUE, text |-> Stringify(e), writers |-> {}] :
        e \in EventsOf({id}, {"JOB_CREATED"}, 1..MaxBatchTs, {"job-1"},
                       {<<>>, <<"hiring", "arbitrator">>, <<"worker">>})}

BatchInit ==
    /\ pending \in {d \in [Ids -> UNION {BatchFiles(id) : id \in Ids}] :
                        \A id \in Ids : d[id] \in BatchFiles(id)}
    /\ temp = EmptyDir
    /\ processed = EmptyDir
    /\ corrupted = EmptyDir
    /\ InitLocals
    /\ InitRegistry
    /\ InitStarted
    /\ InitBooted
    /\ InitHistory

\* The worker's bus polls a directory of up to three files, cycle after
\* cycle; nothing else touches the store.
BatchNext ==
    \E t \in {"worker"} :
        \/ PollReaddir(t) /\ SeqHistory(t) /\ UNCHANGED <<polled, firstPub, npub, given>> /\ UNCHANGED fixed
        \/ PollReadFile(t) /\ SeqHistory(t) /\ UNCHANGED <<polled, firstPub, npub, given>> /\ UNCHANGED fixed
        \/ PollQuarantine(t) /\ SeqHistory(t) /\ UNCHANGED <<polled, firstPub, npub, given>> /\ UNCHANGED fixed
        \/ PollDispatch(t) /\ SeqHistory(t) /\ UNCHANGED <<polled, firstPub, npub, given>> /\ UNCHANGED fixed
        \/ MoveRead(t) /\ SeqHistory(t) /\ UNCHANGED <<polled, firstPub, npub, given>> /\ UNCHANGED fixed
        \/ MoveOpen(t) /\ SeqHistory(t) /\ UNCHANGED <<polled, firstPub, npub, given>> /\ UNCHANGED fixed
        \/ MoveWrite(t) /\ SeqHistory(t) /\ UNCHANGED <<polled, firstPub, npub, given>> /\ UNCHANGED fixed
        \/ MoveUnlink(t) /\ SeqHistory(t) /\ UNCHANGED <<polled, firstPub, npub, given>> /\ UNCHANGED fixed
        \/ UpdateAccess(t) /\ SeqHistory(t) /\ UNCHANGED <<polled, firstPub, npub, given>> /\ UNCHANGED fixed
        \/ UpdateOpen(t) /\ SeqHistory(t) /\ UNCHANGED <<polled, firstPub, npub, given>> /\ UNCHANGED fixed
        \/ UpdateWrite(t) /\ SeqHistory(t) /\ UNCHANGED <<polled, firstPub, npub, given>> /\ UNCHANGED fixed
        \/ UpdateRename(t) /\ SeqHistory(t) /\ UNCHANGED <<polled, firstPub, npub, given>> /\ UNCHANGED fixed

BatchSpec == BatchInit /\ [][BatchNext]_vars

\* What a bus may find under a final pending name when other programs
\* write there too: no file, a file that does not parse, a JOB_CREATED
\* record (unmarked or marked by the two other services), or JSON of a
\* record that has no processedBy.
ShapeFiles(id) ==
    {NoFile, [exists |-> TRUE, text |-> Corrupt, writers |-> {}]} \cup
    {[exists |-> TRUE, text |-> Stringify(e), writers |-> {}] :
        e \in EventsOf({id}, {"JOB_CREATED"}, Timestamps, {"job-1"},
                       {<<>>, <<"hiring", "arbitrator">>, NoProcessedBy})}

ShapeInit ==
    /\ pending \in {d \in [Ids -> UNION {ShapeFiles(id) : id \in Ids}] :
                        \A id \in Ids : d[id] \in ShapeFiles(id)}
    /\ temp = EmptyDir
    /\ processed = EmptyDir
    /\ corrupted = EmptyDir
    /\ InitLocals
    /\ InitRegistry
    /\ InitStarted
    /\ InitBooted
    /\ InitHistory

\* The worker's bus polls such a directory, cycle after cycle.
ShapeSpec == ShapeInit /\ [][BatchNext]_vars

\* Two JOB_CREATED records are pending, the older unmarked or marked by the
\* two other services, and so the younger, when the worker's bus polls.
FaultInit ==
    /\ pending \in
        {[EmptyDir EXCEPT
            !["e1"] = [exists |-> TRUE, text |-> Stringify(a), writers |-> {}],
            !["e2"] = [exists |-> TRUE, text |-> Stringify(b), writers |-> {}]] :
         a \in EventsOf({"e1"}, {"JOB_CREATED"}, {1}, {"job-1"},
                        {<<>>, <<"hiring", "arbitrator">>}),
         b \in EventsOf({"e2"}, {"JOB_CREATED"}, {2}, {"job-2"},
                        {<<>>, <<"hiring", "arbitrator">>})}
    /\ temp = EmptyDir
    /\ processed = EmptyDir
    /\ corrupted = EmptyDir
    /\ InitLocals
    /\ InitRegistry
    /\ InitStarted
    /\ InitBooted
    /\ InitHistory

\* The worker's bus polls, cycle after cycle, on a store whose file
\* operations may fail.
FaultNext ==
    \E t \in {"worker"} :
        \/ PollReaddir(t) /\ SeqHistory(t) /\ UNCHANGED <<polled, firstPub, npub, given>> /\ UNCHANGED fixed
        \/ PollReadFile(t) /\ SeqHistory(t) /\ UNCHANGED <<polled, firstPub, npub, given>> /\ UNCHANGED fixed
        \/ PollDispatch(t) /\ SeqHistory(t) /\ UNCHANGED <<polled, firstPub, npub, given>> /\ UNCHANGED fixed
        \/ MoveRead(t) /\ SeqHistory(t) /\ UNCHANGED <<polled, firstPub, npub, given>> /\ UNCHANGED fixed
        \/ MoveOpen(t) /\ SeqHistory(t) /\ UNCHANGED <<polled, firstPub, npub, given>> /\ UNCHANGED fixed
        \/ MoveWrite(t) /\ SeqHistory(t) /\ UNCHANGED <<polled, firstPub, npub, given>> /\ UNCHANGED fixed
        \/ MoveUnlink(t) /\ SeqHistory(t) /\ UNCHANGED <<polled, firstPub, npub, given>> /\ UNCHANGED fixed
        \/ UpdateAccess(t) /\ SeqHistory(t) /\ UNCHANGED <<polled, firstPub, npub, given>> /\ UNCHANGED fixed
        \/ UpdateOpen(t) /\ SeqHistory(t) /\ UNCHANGED <<polled, firstPub, npub, given>> /\ UNCHANGED fixed
        \/ UpdateWrite(t) /\ SeqHistory(t) /\ UNCHANGED <<polled, firstPub, npub, given>> /\ UNCHANGED fixed
        \/ UpdateRename(t) /\ SeqHistory(t) /\ UNCHANGED <<polled, firstPub, npub, given>> /\ UNCHANGED fixed
        \/ MoveReadFails(t) /\ SeqHistory(t) /\ UNCHANGED <<polled, firstPub, npub, given>> /\ UNCHANGED fixed
        \/ MoveOpenFails(t) /\ SeqHistory(t) /\ UNCHANGED <<polled, firstPub, npub, given>> /\ UNCHANGED fixed
        \/ MoveWriteFails(t) /\ SeqHistory(t) /\ UNCHANGED <<polled, firstPub, npub, given>> /\ UNCHANGED fixed
        \/ MoveUnlinkFails(t) /\ SeqHistory(t) /\ UNCHANGED <<polled, firstPub, npub, given>> /\ UNCHANGED fixed
        \/ UpdateOpenFails(t) /\ SeqHistory(t) /\ UNCHANGED <<polled, firstPub, npub, given>> /\ UNCHANGED fixed
        \/ UpdateWriteFails(t) /\ SeqHistory(t) /\ UNCHANGED <<polled, firstPub, npub, given>> /\ UNCHANGED fixed
        \/ UpdateRenameFails(t) /\ SeqHistory(t) /\ UNCHANGED <<polled, firstPub, npub, given>> /\ UNCHANGED fixed

FaultSpec == FaultInit /\ [][FaultNext]_vars

\* A publisher that died has left `.e1.tmp` behind, with a complete record
\* or with a torn one; the final names hold what a late bus may find.
StaleInit ==
    /\ pending \in {d \in [Ids -> UNION {BatchFiles(id) : id \in Ids}] :
                        /\ d["e1"] = NoFile
                        /\ \A id \in Ids \ {"e1"} : d[id] \in BatchFiles(id)}
    /\ temp \in
        {[EmptyDir EXCEPT !["e1"] = [exists |-> TRUE, text |-> x, writers |-> {}]] :
         x \in {Corrupt} \cup
               {Stringify(e) : e \in EventsOf({"e1"}, {"JOB_CREATED"}, {1},
                                               {"job-1"}, {<<>>})}}
    /\ processed = EmptyDir
    /\ corrupted = EmptyDir
    /\ InitLocals
    /\ InitRegistry
    /\ InitStarted
    /\ InitBooted
    /\ InitHistory

\* The worker's bus polls that directory, cycle after cycle.
StaleSpec == StaleInit /\ [][BatchNext]_vars

\* One publish() call, made with any record, on a store with nothing
\* pending.
OnceNext ==
    \E t \in {"pub1"} :
        \/ /\ \A id \in Ids : npub[id] = 0
           /\ pc[t] = "idle"
           /\ \E input \in AnyInputs :
                /\ PublishBegin(t, input) /\ PublishHistory(t) /\ CallHistory(t, input, "")
                /\ UNCHANGED <<pre, last, polled>> /\ UNCHANGED fixed
        \/ PublishOpen(t) /\ PublishHistory(t) /\ UNCHANGED <<pre, last, polled, given>> /\ UNCHANGED fixed
        \/ PublishWrite(t) /\ PublishHistory(t) /\ UNCHANGED <<pre, last, polled, given>> /\ UNCHANGED fixed
        \/ PublishReadBack(t) /\ PublishHistory(t) /\ UNCHANGED <<pre, last, polled, given>> /\ UNCHANGED fixed
        \/ PublishRename(t) /\ PublishHistory(t) /\ UNCHANGED <<pre, last, polled, given>> /\ UNCHANGED fixed

OnceSpec == Init /\ [][OnceNext]_vars

\* One publishEvent() call, made through the runtime of any bus with any
\* record, on a store with nothing pending.
RuntimeNext ==
    \E t \in {"pub1"} :
        \/ /\ \A id \in Ids : npub[id] = 0
           /\ pc[t] = "idle"
           /\ \E b \in Bus : \E input \in AnyInputs :
                /\ PublishEvent(t, b, input) /\ PublishHistory(t) /\ CallHistory(t, input, b)
                /\ UNCHANGED <<pre, last, polled>> /\ UNCHANGED fixed
        \/ PublishOpen(t) /\ PublishHistory(t) /\ UNCHANGED <<pre, last, polled, given>> /\ UNCHANGED fixed
        \/ PublishWrite(t) /\ PublishHistory(t) /\ UNCHANGED <<pre, last, polled, given>> /\ UNCHANGED fixed
        \/ PublishReadBack(t) /\ PublishHistory(t) /\ UNCHANGED <<pre, last, polled, given>> /\ UNCHANGED fixed
        \/ PublishRename(t) /\ PublishHistory(t) /\ UNCHANGED <<pre, last, polled, given>> /\ UNCHANGED fixed

RuntimeSpec == Init /\ [][RuntimeNext]_vars

\* The agent types a record can name as its source or its target; "" is a
\* record without targetAgent.
AgentTypes == {"hiring", "worker", "arbitrator"}

\* Two records are pending that differ in their ids, in whom they name as
\* target and in whom they name as source, and in nothing else.
BroadcastInit ==
    /\ pending \in
        {[EmptyDir EXCEPT
            !["e1"] = [exists |-> TRUE, writers |-> {},
                       text |-> Stringify([e EXCEPT !.id = "e1"])],
            !["e2"] = [exists |-> TRUE, writers |-> {},
                       text |-> Stringify([e EXCEPT !.id = "e2",
                                    !.targetAgent = target, !.sourceAgent = source])]] :
         e \in EventsOf({"e1"}, {"JOB_CREATED", "DISPUTE_FILED"}, {1}, {"job-1"},
                        {<<>>}),
         target \in AgentTypes, source \in AgentTypes}
    /\ temp = EmptyDir
    /\ processed = EmptyDir
    /\ corrupted = EmptyDir
    /\ InitLocals
    /\ InitRegistry
    /\ InitStarted
    /\ InitBooted
    /\ InitHistory

\* The three services poll, one cycle at a time.
BroadcastNext ==
    \E t \in Services :
        \/ Exclusive(t) /\ PollReaddir(t) /\ DeployHistory(t) /\ UNCHANGED <<pre, last, firstPub, npub, given>> /\ UNCHANGED fixed
        \/ Exclusive(t) /\ PollReadFile(t) /\ DeployHistory(t) /\ UNCHANGED <<pre, last, firstPub, npub, given>> /\ UNCHANGED fixed
        \/ Exclusive(t) /\ PollDispatch(t) /\ DeployHistory(t) /\ UNCHANGED <<pre, last, firstPub, npub, given>> /\ UNCHANGED fixed
        \/ Exclusive(t) /\ MoveRead(t) /\ DeployHistory(t) /\ UNCHANGED <<pre, last, firstPub, npub, given>> /\ UNCHANGED fixed
        \/ Exclusive(t) /\ MoveOpen(t) /\ DeployHistory(t) /\ UNCHANGED <<pre, last, firstPub, npub, given>> /\ UNCHANGED fixed
        \/ Exclusive(t) /\ MoveWrite(t) /\ DeployHistory(t) /\ UNCHANGED <<pre, last, firstPub, npub, given>> /\ UNCHANGED fixed
        \/ Exclusive(t) /\ MoveUnlink(t) /\ DeployHistory(t) /\ UNCHANGED <<pre, last, firstPub, npub, given>> /\ UNCHANGED fixed
        \/ Exclusive(t) /\ UpdateAccess(t) /\ DeployHistory(t) /\ UNCHANGED <<pre, last, firstPub, npub, given>> /\ UNCHANGED fixed
        \/ Exclusive(t) /\ UpdateOpen(t) /\ DeployHistory(t) /\ UNCHANGED <<pre, last, firstPub, npub, given>> /\ UNCHANGED fixed
        \/ Exclusive(t) /\ UpdateWrite(t) /\ DeployHistory(t) /\ UNCHANGED <<pre, last, firstPub, npub, given>> /\ UNCHANGED fixed
        \/ Exclusive(t) /\ UpdateRename(t) /\ DeployHistory(t) /\ UNCHANGED <<pre, last, firstPub, npub, given>> /\ UNCHANGED fixed

BroadcastSpec == BroadcastInit /\ [][BroadcastNext]_vars

\* publish() calls alone, one after the other.
PubSeqNext ==
    \E t \in {"pub1"} :
        \/ \E input \in PubInputs :
            /\ Exclusive(t) /\ PublishBegin(t, input) /\ PublishHistory(t)
            /\ UNCHANGED <<pre, last, polled, given>> /\ UNCHANGED fixed
        \/ Exclusive(t) /\ PublishOpen(t) /\ PublishHistory(t) /\ UNCHANGED <<pre, last, polled, given>> /\ UNCHANGED fixed
        \/ Exclusive(t) /\ PublishWrite(t) /\ PublishHistory(t) /\ UNCHANGED <<pre, last, polled, given>> /\ UNCHANGED fixed
        \/ Exclusive(t) /\ PublishReadBack(t) /\ PublishHistory(t) /\ UNCHANGED <<pre, last, polled, given>> /\ UNCHANGED fixed
        \/ Exclusive(t) /\ PublishRename(t) /\ PublishHistory(t) /\ UNCHANGED <<pre, last, polled, given>> /\ UNCHANGED fixed

PubSeqSpec == Init /\ [][PubSeqNext]_vars

\* publish() calls, one after the other, on a store whose operations may
\* fail.
PubFaultNext ==
    \E t \in {"pub1"} :
        \/ \E input \in DeployInputs :
            /\ PublishBegin(t, input) /\ PublishHistory(t)
            /\ UNCHANGED <<pre, last, polled, given>> /\ UNCHANGED fixed
        \/ \E input \in DeployInputs :
            /\ PublishAccessFails(t, input) /\ PublishHistory(t)
            /\ UNCHANGED <<pre, last, polled, given>> /\ UNCHANGED fixed
        \/ PublishOpen(t) /\ PublishHistory(t) /\ UNCHANGED <<pre, last, polled, given>> /\ UNCHANGED fixed
        \/ PublishWrite(t) /\ PublishHistory(t) /\ UNCHANGED <<pre, last, polled, given>> /\ UNCHANGED fixed
        \/ PublishReadBack(t) /\ PublishHistory(t) /\ UNCHANGED <<pre, last, polled, given>> /\ UNCHANGED fixed
        \/ PublishRename(t) /\ PublishHistory(t) /\ UNCHANGED <<pre, last, polled, given>> /\ UNCHANGED fixed
        \/ PublishOpenFails(t) /\ PublishHistory(t) /\ UNCHANGED <<pre, last, polled, given>> /\ UNCHANGED fixed
        \/ PublishWriteFails(t) /\ PublishHistory(t) /\ UNCHANGED <<pre, last, polled, given>> /\ UNCHANGED fixed
        \/ PublishReadBackFails(t) /\ PublishHistory(t) /\ UNCHANGED <<pre, last, polled, given>> /\ UNCHANGED fixed
        \/ PublishRenameFails(t) /\ PublishHistory(t) /\ UNCHANGED <<pre, last, polled, given>> /\ UNCHANGED fixed

PubFaultSpec == Init /\ [][PubFaultNext]_vars

\* publish() calls of two processes, their file operations interleaved.
PubNext ==
    \E t \in Pub :
        \/ \E input \in PubInputs :
            PublishBegin(t, input) /\ UNCHANGED hist /\ UNCHANGED fixed
        \/ PublishOpen(t) /\ UNCHANGED hist /\ UNCHANGED fixed
        \/ PublishWrite(t) /\ UNCHANGED hist /\ UNCHANGED fixed
        \/ PublishReadBack(t) /\ UNCHANGED hist /\ UNCHANGED fixed
        \/ PublishUnlink(t) /\ UNCHANGED hist /\ UNCHANGED fixed
        \/ PublishRename(t) /\ UNCHANGED hist /\ UNCHANGED fixed

PubSpec == Init /\ [][PubNext]_vars

\* The buses whose lifecycle and timers are followed.
TickBus == {"hiring", "worker"}

\* One JOB_CREATED record is pending, unmarked or marked by the arbitrator's
\* bus, when the hiring and worker services start.
TickInit ==
    /\ pending \in
        {[EmptyDir EXCEPT !["e1"] =
            [exists |-> TRUE, text |-> Stringify(e), writers |-> {}]] :
         e \in EventsOf({"e1"}, {"JOB_CREATED"}, {1}, {"job-1"},
                        {<<>>, <<"arbitrator">>})}
    /\ temp = EmptyDir
    /\ processed = EmptyDir
    /\ corrupted = EmptyDir
    /\ InitLocals
    /\ InitRegistry
    /\ InitStopped
    /\ InitBooted
    /\ InitHistory

\* Two services driven by their timers: a tick starts a poll cycle of its
\* bus whether or not the earlier one has returned.
TickNext ==
    \E b \in TickBus : \E t \in Cycles(b) :
        \/ StartPolling(b, t) /\ UNCHANGED <<registry, calls, boot, kills, hist>>
        \/ ArmTimer(b, t) /\ UNCHANGED <<registry, calls, boot, kills, hist>>
        \/ TimerTick(b, t) /\ UNCHANGED <<registry, calls, boot, kills, hist>>
        \/ PollReadFile(t) /\ UNCHANGED <<registry, life, calls, boot, kills, hist>>
        \/ PollQuarantine(t) /\ UNCHANGED <<registry, life, calls, boot, kills, hist>>
        \/ PollDispatch(t) /\ UNCHANGED <<registry, life, calls, boot, kills, hist>>
        \/ MoveRead(t) /\ UNCHANGED <<registry, life, calls, boot, kills, hist>>
        \/ MoveOpen(t) /\ UNCHANGED <<registry, life, calls, boot, kills, hist>>
        \/ MoveWrite(t) /\ UNCHANGED <<registry, life, calls, boot, kills, hist>>
        \/ MoveUnlink(t) /\ UNCHANGED <<registry, life, calls, boot, kills, hist>>
        \/ UpdateAccess(t) /\ UNCHANGED <<registry, life, calls, boot, kills, hist>>
        \/ UpdateOpen(t) /\ UNCHANGED <<registry, life, calls, boot, kills, hist>>
        \/ UpdateWrite(t) /\ UNCHANGED <<registry, life, calls, boot, kills, hist>>
        \/ UpdateRename(t) /\ UNCHANGED <<registry, life, calls, boot, kills, hist>>

TickSpec == TickInit /\ [][TickNext]_vars

\* The same two services on a store whose directory listing may fail.
OutageNext ==
    \/ TickNext
    \/ \E b \in TickBus : \E t \in Cycles(b) :
        \/ StartPollingFails(b, t) /\ UNCHANGED <<registry, calls, boot, kills, hist>>
        \/ TimerTickFails(b, t) /\ UNCHANGED <<registry, calls, boot, kills, hist>>

OutageSpec == TickInit /\ [][OutageNext]_vars

\* One JOB_CREATED record is pending, marked by one or by two other
\* services, when the hiring service is constructed.
LifeInit ==
    /\ pending \in
        {[EmptyDir EXCEPT !["e1"] =
            [exists |-> TRUE, text |-> Stringify(e), writers |-> {}]] :
         e \in EventsOf({"e1"}, {"JOB_CREATED"}, {1}, {"job-1"},
                        {<<"arbitrator">>, <<"arbitrator", "worker">>})}
    /\ temp = EmptyDir
    /\ processed = EmptyDir
    /\ corrupted = EmptyDir
    /\ InitLocals
    /\ InitRegistry
    /\ InitStopped
    /\ InitBooted
    /\ InitHistory

\* The owner of one bus calls startPolling() and stopPolling() in any
\* order and at any moment, also while an earlier startPolling() is still
\* awaiting its initial poll.
LifeNext ==
    \E b \in {"hiring"} :
        \/ StopPolling(b) /\ UNCHANGED <<registry, calls, boot, kills, hist>>
        \/ \E t \in Cycles(b) :
            \/ StartPolling(b, t) /\ UNCHANGED <<registry, calls, boot, kills, hist>>
            \/ ArmTimer(b, t) /\ UNCHANGED <<registry, calls, boot, kills, hist>>
            \/ TimerTick(b, t) /\ UNCHANGED <<registry, calls, boot, kills, hist>>
            \/ PollReadFile(t) /\ UNCHANGED <<registry, life, calls, boot, kills, hist>>
            \/ PollQuarantine(t) /\ UNCHANGED <<registry, life, calls, boot, kills, hist>>
            \/ PollDispatch(t) /\ UNCHANGED <<registry, life, calls, boot, kills, hist>>
            \/ MoveRead(t) /\ UNCHANGED <<registry, life, calls, boot, kills, hist>>
            \/ MoveOpen(t) /\ UNCHANGED <<registry, life, calls, boot, kills, hist>>
            \/ MoveWrite(t) /\ UNCHANGED <<registry, life, calls, boot, kills, hist>>
            \/ MoveUnlink(t) /\ UNCHANGED <<registry, life, calls, boot, kills, hist>>
            \/ UpdateAccess(t) /\ UNCHANGED <<registry, life, calls, boot, kills, hist>>
            \/ UpdateOpen(t) /\ UNCHANGED <<registry, life, calls, boot, kills, hist>>
            \/ UpdateWrite(t) /\ UNCHANGED <<registry, life, calls, boot, kills, hist>>
            \/ UpdateRename(t) /\ UNCHANGED <<registry, life, calls, boot, kills, hist>>

LifeSpec == LifeInit /\ [][LifeNext]_vars

\* One JOB_CREATED record is pending, marked by the orchestrator's bus,
\* when the three services come to poll.
RaceInit ==
    /\ pending \in
        {[EmptyDir EXCEPT !["e1"] =
            [exists |-> TRUE, text |-> Stringify(e), writers |-> {}]] :
         e \in EventsOf({"e1"}, {"JOB_CREATED"}, {1}, {"job-1"},
                        {<<"orchestrator">>})}
    /\ temp = EmptyDir
    /\ processed = EmptyDir
    /\ corrupted = EmptyDir
    /\ InitLocals
    /\ InitRegistry
    /\ InitStarted
    /\ InitBooted
    /\ InitHistory

\* The three services poll, their file operations interleaved.
RaceNext ==
    \E t \in Services :
        \/ PollReaddir(t) /\ UNCHANGED hist /\ UNCHANGED fixed
        \/ PollReadFile(t) /\ UNCHANGED hist /\ UNCHANGED fixed
        \/ PollQuarantine(t) /\ UNCHANGED hist /\ UNCHANGED fixed
        \/ PollDispatch(t) /\ UNCHANGED hist /\ UNCHANGED fixed
        \/ MoveRead(t) /\ UNCHANGED hist /\ UNCHANGED fixed
        \/ MoveOpen(t) /\ UNCHANGED hist /\ UNCHANGED fixed
        \/ MoveWrite(t) /\ UNCHANGED hist /\ UNCHANGED fixed
        \/ MoveUnlink(t) /\ UNCHANGED hist /\ UNCHANGED fixed
        \/ UpdateAccess(t) /\ UNCHANGED hist /\ UNCHANGED fixed
        \/ UpdateOpen(t) /\ UNCHANGED hist /\ UNCHANGED fixed
        \/ UpdateWrite(t) /\ UNCHANGED hist /\ UNCHANGED fixed
        \/ UpdateRename(t) /\ UNCHANGED hist /\ UNCHANGED fixed

RaceSpec == RaceInit /\ [][RaceNext]_vars

\* Two JOB_CREATED records are pending, each marked by two buses, when the
\* hiring and the worker service come to poll: either reaches the archival
\* threshold for both.
MoveRaceInit ==
    /\ pending \in
        {[EmptyDir EXCEPT
            !["e1"] = [exists |-> TRUE, text |-> Stringify(a), writers |-> {}],
            !["e2"] = [exists |-> TRUE, text |-> Stringify(b), writers |-> {}]] :
         a \in EventsOf({"e1"}, {"JOB_CREATED"}, {1}, {"job-1"},
                        {<<"orchestrator", "arbitrator">>}),
         b \in EventsOf({"e2"}, {"JOB_CREATED"}, {1, 2}, {"job-2"},
                        {<<"arbitrator", "orchestrator">>})}
    /\ temp = EmptyDir
    /\ processed = EmptyDir
    /\ corrupted = EmptyDir
    /\ InitLocals
    /\ InitRegistry
    /\ InitStarted
    /\ InitBooted
    /\ InitHistory

\* The two services poll, their file operations interleaved.
MoveRaceNext ==
    \E t \in TickBus :
        \/ PollReaddir(t) /\ DeployHistory(t) /\ UNCHANGED <<pre, last, firstPub, npub, given>> /\ UNCHANGED fixed
        \/ PollReadFile(t) /\ DeployHistory(t) /\ UNCHANGED <<pre, last, firstPub, npub, given>> /\ UNCHANGED fixed
        \/ PollDispatch(t) /\ DeployHistory(t) /\ UNCHANGED <<pre, last, firstPub, npub, given>> /\ UNCHANGED fixed
        \/ MoveRead(t) /\ DeployHistory(t) /\ UNCHANGED <<pre, last, firstPub, npub, given>> /\ UNCHANGED fixed
        \/ MoveOpen(t) /\ DeployHistory(t) /\ UNCHANGED <<pre, last, firstPub, npub, given>> /\ UNCHANGED fixed
        \/ MoveWrite(t) /\ DeployHistory(t) /\ UNCHANGED <<pre, last, firstPub, npub, given>> /\ UNCHANGED fixed
        \/ MoveUnlink(t) /\ DeployHistory(t) /\ UNCHANGED <<pre, last, firstPub, npub, given>> /\ UNCHANGED fixed

MoveRaceSpec == MoveRaceInit /\ [][MoveRaceNext]_vars

\* A kill of the process of bus b, counted.
KillHistory ==
    /\ kills < MaxKills
    /\ kills' = kills + 1

\* The hiring and worker services poll one at a time; either process may be
\* killed wherever its cycle is, and is then started again.
CrashNext ==
    \E t \in TickBus :
        \/ Exclusive(t) /\ StartPolling(t, t) /\ UNCHANGED <<registry, calls, boot, kills, hist>>
        \/ Exclusive(t) /\ ArmTimer(t, t) /\ UNCHANGED <<registry, calls, boot, kills, hist>>
        \/ Exclusive(t) /\ TimerTick(t, t) /\ UNCHANGED <<registry, calls, boot, kills, hist>>
        \/ Kill(t) /\ KillHistory /\ UNCHANGED <<calls, boot, hist>>
        \/ PollReadFile(t) /\ UNCHANGED <<registry, life, calls, boot, kills, hist>>
        \/ PollDispatch(t) /\ UNCHANGED <<registry, life, calls, boot, kills, hist>>
        \/ MoveRead(t) /\ UNCHANGED <<registry, life, calls, boot, kills, hist>>
        \/ MoveOpen(t) /\ UNCHANGED <<registry, life, calls, boot, kills, hist>>
        \/ MoveWrite(t) /\ UNCHANGED <<registry, life, calls, boot, kills, hist>>
        \/ MoveUnlink(t) /\ UNCHANGED <<registry, life, calls, boot, kills, hist>>
        \/ UpdateAccess(t) /\ UNCHANGED <<registry, life, calls, boot, kills, hist>>
        \/ UpdateOpen(t) /\ UNCHANGED <<registry, life, calls, boot, kills, hist>>
        \/ UpdateWrite(t) /\ UNCHANGED <<registry, life, calls, boot, kills, hist>>
        \/ UpdateRename(t) /\ UNCHANGED <<registry, life, calls, boot, kills, hist>>

CrashSpec == TickInit /\ [][CrashNext]_vars

\* Handler functions of the worker service, any of which may be subscribed
\* to a type.
HandlerNames == {"handleJobCreated", "handleArbitrationComplete"}

\* A bus just constructed (this.handlers = new Map()) facing two JOB_CREATED
\* records, each unmarked or marked by the two other services; any of the
\* handler functions may be one that throws.
HandlerInit ==
    /\ pending \in
        {[EmptyDir EXCEPT
            !["e1"] = [exists |-> TRUE, text |-> Stringify(a), writers |-> {}],
            !["e2"] = [exists |-> TRUE, text |-> Stringify(b), writers |-> {}]] :
         a \in EventsOf({"e1"}, {"JOB_CREATED"}, {1}, {"job-1"},
                        {<<>>, <<"hiring", "arbitrator">>}),
         b \in EventsOf({"e2"}, {"JOB_CREATED"}, {2}, {"job-2"},
                        {<<>>, <<"hiring", "arbitrator">>})}
    /\ temp = EmptyDir
    /\ processed = EmptyDir
    /\ corrupted = EmptyDir
    /\ InitLocals
    /\ handlers = [b \in Bus |-> [type \in EventTypes |-> <<>>]]
    /\ failing \in SUBSET HandlerNames
    /\ InitStarted
    /\ InitBooted
    /\ InitHistory

\* The worker's bus gets its handlers subscribed, then polls, cycle after
\* cycle.
HandlerNext ==
    \E t \in {"worker"} :
        \/ \E h \in HandlerNames :
            /\ pc[t] = "idle" /\ last = "none"
            /\ Subscribe(t, "JOB_CREATED", h)
            /\ UNCHANGED <<life, calls, boot, kills, hist>>
        \/ PollReaddir(t) /\ SeqHistory(t) /\ UNCHANGED <<polled, firstPub, npub, given>> /\ UNCHANGED fixed
        \/ PollReadFile(t) /\ SeqHistory(t) /\ UNCHANGED <<polled, firstPub, npub, given>> /\ UNCHANGED fixed
        \/ PollDispatch(t) /\ SeqHistory(t) /\ UNCHANGED <<polled, firstPub, npub, given>> /\ UNCHANGED fixed
        \/ MoveRead(t) /\ SeqHistory(t) /\ UNCHANGED <<polled, firstPub, npub, given>> /\ UNCHANGED fixed
        \/ MoveOpen(t) /\ SeqHistory(t) /\ UNCHANGED <<polled, firstPub, npub, given>> /\ UNCHANGED fixed
        \/ MoveWrite(t) /\ SeqHistory(t) /\ UNCHANGED <<polled, firstPub, npub, given>> /\ UNCHANGED fixed
        \/ MoveUnlink(t) /\ SeqHistory(t) /\ UNCHANGED <<polled, firstPub, npub, given>> /\ UNCHANGED fixed
        \/ UpdateAccess(t) /\ SeqHistory(t) /\ UNCHANGED <<polled, firstPub, npub, given>> /\ UNCHANGED fixed
        \/ UpdateOpen(t) /\ SeqHistory(t) /\ UNCHANGED <<polled, firstPub, npub, given>> /\ UNCHANGED fixed
        \/ UpdateWrite(t) /\ SeqHistory(t) /\ UNCHANGED <<polled, firstPub, npub, given>> /\ UNCHANGED fixed
        \/ UpdateRename(t) /\ SeqHistory(t) /\ UNCHANGED <<polled, firstPub, npub, given>> /\ UNCHANGED fixed

HandlerSpec == HandlerInit /\ [][HandlerNext]_vars

\* The worker's bus gets its handlers subscribed, then polls; the handler
\* loop is followed call by call.
StepNext ==
    \E t \in {"worker"} :
        \/ \E h \in HandlerNames :
            /\ pc[t] = "idle" /\ last = "none"
            /\ Subscribe(t, "JOB_CREATED", h)
            /\ UNCHANGED <<life, calls, boot, kills, hist>>
        \/ PollReaddir(t) /\ SeqHistory(t) /\ UNCHANGED <<polled, firstPub, npub, given>> /\ UNCHANGED fixed
        \/ PollReadFile(t) /\ SeqHistory(t) /\ UNCHANGED <<polled, firstPub, npub, given>> /\ UNCHANGED fixed
        \/ ProcessBegin(t) /\ SeqHistory(t) /\ UNCHANGED <<polled, firstPub, npub, given>> /\ UNCHANGED <<registry, life, boot, kills>>
        \/ HandlerCall(t) /\ SeqHistory(t) /\ UNCHANGED <<polled, firstPub, npub, given>> /\ UNCHANGED <<registry, life, boot, kills>>
        \/ HandlerSettles(t) /\ SeqHistory(t) /\ UNCHANGED <<polled, firstPub, npub, given>> /\ UNCHANGED <<registry, life, boot, kills>>
        \/ ProcessMark(t) /\ SeqHistory(t) /\ UNCHANGED <<polled, firstPub, npub, given>> /\ UNCHANGED <<registry, life, boot, kills>>
        \/ MoveRead(t) /\ SeqHistory(t) /\ UNCHANGED <<polled, firstPub, npub, given>> /\ UNCHANGED fixed
        \/ MoveOpen(t) /\ SeqHistory(t) /\ UNCHANGED <<polled, firstPub, npub, given>> /\ UNCHANGED fixed
        \/ MoveWrite(t) /\ SeqHistory(t) /\ UNCHANGED <<polled, firstPub, npub, given>> /\ UNCHANGED fixed
        \/ MoveUnlink(t) /\ SeqHistory(t) /\ UNCHANGED <<polled, firstPub, npub, given>> /\ UNCHANGED fixed
        \/ UpdateAccess(t) /\ SeqHistory(t) /\ UNCHANGED <<polled, firstPub, npub, given>> /\ UNCHANGED fixed
        \/ UpdateOpen(t) /\ SeqHistory(t) /\ UNCHANGED <<polled, firstPub, npub, given>> /\ UNCHANGED fixed
        \/ UpdateWrite(t) /\ SeqHistory(t) /\ UNCHANGED <<polled, firstPub, npub, given>> /\ UNCHANGED fixed
        \/ UpdateRename(t) /\ SeqHistory(t) /\ UNCHANGED <<polled, firstPub, npub, given>> /\ UNCHANGED fixed

StepSpec == HandlerInit /\ [][StepNext]_vars

\* The hiring service, whose main() constructs the agent and starts it.
StartupBus == {"hiring"}

\* A file of pendingDir when the service starts: none, or a record nobody
\* has processed, of a type the hiring agent handles or of one it does not.
StartupFiles(id) ==
    {NoFile} \cup
    {[exists |-> TRUE, text |-> Stringify(e), writers |-> {}] :
        e \in EventsOf({id}, {"WORK_SUBMITTED", "JOB_CREATED"}, {1}, {"job-1"}, {<<>>})}

StartupStores ==
    {[id \in Ids |-> IF id = "e1" THEN f1 ELSE IF id = "e2" THEN f2 ELSE NoFile] :
        f1 \in StartupFiles("e1"), f2 \in StartupFiles("e2")}

\* No agent is constructed yet.  The marketplace is a fresh tree, or has
\* its events directory only, or has all three (and then records may be
\* pending).
StartupInit ==
    /\ dirs \in {{}, {"events"}, Directories}
    /\ pending \in {d \in StartupStores : dirs = Directories \/ d = EmptyDir}
    /\ temp = EmptyDir
    /\ processed = EmptyDir
    /\ corrupted = EmptyDir
    /\ InitLocals
    /\ handlers = [b \in Bus |-> [type \in EventTypes |-> <<>>]]
    /\ failing = {}
    /\ InitStopped
    /\ runtime = [b \in Bus |-> "none"]
    /\ ensure = [b \in Bus |-> "none"]
    /\ InitHistory

\* The service from `new` on: the directories are made behind the
\* constructor's back while start() goes on to the listener.
StartupNext ==
    \E b \in StartupBus :
        \/ Construct(b) /\ UNCHANGED <<calls, kills, hist>>
        \/ Mkdir(b) /\ UNCHANGED <<calls, kills, hist>>
        \/ MkdirFails(b) /\ UNCHANGED <<calls, kills, hist>>
        \/ RejectionExits(b) /\ UNCHANGED <<calls, kills, hist>>
        \/ StartEventListener(b, b) /\ UNCHANGED <<registry, calls, boot, kills, hist>>
        \/ ArmTimer(b, b) /\ UNCHANGED <<registry, calls, boot, kills, hist>>
        \/ TimerTick(b, b) /\ UNCHANGED <<registry, calls, boot, kills, hist>>
        \/ PollReadFile(b) /\ UNCHANGED <<registry, life, calls, boot, kills, hist>>
        \/ PollDispatch(b) /\ UNCHANGED <<registry, life, calls, boot, kills, hist>>
        \/ UpdateAccess(b) /\ UNCHANGED <<registry, life, calls, boot, kills, hist>>
        \/ UpdateOpen(b) /\ UNCHANGED <<registry, life, calls, boot, kills, hist>>
        \/ UpdateWrite(b) /\ UNCHANGED <<registry, life, calls, boot, kills, hist>>
        \/ UpdateRename(b) /\ UNCHANGED <<registry, life, calls, boot, kills, hist>>

StartupSpec == StartupInit /\ [][StartupNext]_vars

(* ------------------------------------------------------------------ *)
(* Properties                                                           *)
(* ------------------------------------------------------------------ *)

AllIdle == \A t \in Tasks : pc[t] = "idle"

Record(file) == file.text.json

\* C1: when one bus alone polls, cycle after cycle, each handler it has for
\* a pending record's type is invoked at most once for that record.
C1_HandlersAtMostOnce ==
    \A b \in Bus : \A id \in Ids : invoked[b][id] <= 1

\* C1, its case: the bus has run its handler for a record, marked it, and a
\* later cycle of the same bus has read the record again, still pending.
C1_Witness ==
    \E b \in Bus :
        /\ pc[b] = "dispatch" /\ last = b
        /\ LET event == Head(events[b])
           IN  /\ invoked[b][event.id] = 1
               /\ AlreadyProcessed(event, b)
               /\ pending[event.id].exists

\* C2: with several buses polling one store, their file operations
\* interleaved in any way, no bus runs its handlers for a record twice.
C2_AtMostOncePerConsumer ==
    \A id \in Ids : \A b \in Services : invoked[b][id] < 2

\* C3: once a record was published with empty processedBy and three buses
\* have each run a poll cycle, one after another, the record is gone from
\* pending and its archived copy names exactly those three in processedBy.
C3_ArchivedWithAllThree ==
    (AllIdle /\ Cardinality(polled) = 3) =>
        \A id \in Ids :
            (pending[id].exists \/ processed[id].exists) =>
                /\ ~pending[id].exists
                /\ processed[id].exists
                /\ processed[id].text.valid
                /\ SeqToSet(Record(processed[id]).processedBy) = polled

\* C4: a poll cycle of bus b over a pending record that b has not marked
\* archives the record, payload unchanged, when b's mark is the third, and
\* otherwise leaves it pending with b appended to processedBy and every
\* other field as it was.
C4_ArchivalThreshold ==
    \A b \in Services :
        (AllIdle /\ last = b) =>
            \A id \in Ids :
                (pre[id].exists /\ pre[id].text.valid
                    /\ ~InSeq(b, Record(pre[id]).processedBy)) =>
                    LET old == Record(pre[id])
                        n == Len(old.processedBy) + 1
                    IN  /\ n = 3 =>
                            /\ ~pending[id].exists
                            /\ processed[id].exists
                            /\ processed[id].text.valid
                            /\ Record(processed[id]).payload = old.payload
                        /\ n < 3 =>
                            /\ pending[id].exists
                            /\ pending[id].text = Stringify(
                                [old EXCEPT !.processedBy = Append(@, b)])

\* C4, its case: one cycle has archived a record on the third mark and has
\* left another, marked for the first or second time, in pending.
C4_Witness ==
    \E b \in Services :
        /\ AllIdle /\ last = b
        /\ \E id \in Ids :
            /\ pre[id].exists /\ Len(Record(pre[id]).processedBy) = 2
            /\ ~InSeq(b, Record(pre[id]).processedBy)
            /\ processed[id].exists /\ ~pending[id].exists
        /\ \E id \in Ids :
            /\ pre[id].exists /\ Len(Record(pre[id]).processedBy) < 2
            /\ ~InSeq(b, Record(pre[id]).processedBy)
            /\ pending[id].exists

\* C5: no record id has a resource in the pending namespace and one in the
\* archive namespace at the same time.
C5_NeverInBoth ==
    \A id \in Ids : ~(pending[id].exists /\ processed[id].exists)

\* C6: a record that has left pending for the archive has been handled by
\* every bus of the deployment that has a handler for its type.
C6_DeliveredToEveryBus ==
    \A id \in Ids :
        (processed[id].exists /\ processed[id].text.valid /\ ~pending[id].exists) =>
            \A b \in Bus :
                Handlers(b, Record(processed[id]).type) # <<>> => invoked[b][id] >= 1

\* C7: after two publish calls with one id, one after the other, pending
\* holds one resource of that id, with the content the first call wrote.
C7_IdempotentPublish ==
    \A id \in Ids :
        (AllIdle /\ npub[id] >= 2) =>
            /\ pending[id].exists
            /\ pending[id].text = firstPub[id]
            /\ ~temp[id].exists

\* C7, its case: the second call brought a record that differs from the
\* first call's.
C7_Witness ==
    \E id \in Ids :
        /\ AllIdle /\ npub[id] = 2
        /\ buf["pub1"].json.id = id
        /\ buf["pub1"] # firstPub[id]

\* C8: when the publish calls of two processes for one id have both
\* returned, the store holds exactly one resource under that id.
C8_OneResourceAfterCollision ==
    \A id \in Ids :
        (AllIdle /\ \A t \in Pub : buf[t].valid /\ buf[t].json.id = id) =>
            /\ pending[id].exists
            /\ ~temp[id].exists

\* C9: no step of a publish call changes the content of a record that is
\* visible in pending.
C9_PublishNeverOverwrites ==
    [][\A id \in Ids :
        (pending[id].exists /\ pending[id].text.valid) =>
            (pending'[id].exists /\ pending'[id].text = pending[id].text)]_vars

\* C10: a record id that has been archived never has a resource in pending
\* again.
C10_ArchivedIdStaysOut ==
    [][\A id \in Ids :
        (processed[id].exists /\ ~pending[id].exists) => ~pending'[id].exists]_vars

\* A sequence without a repeated entry.
NoDuplicates(s) == \A i, j \in 1..Len(s) : s[i] = s[j] => i = j

\* C11: no record in pending or in the archive names a consumer twice in
\* processedBy, also when the poll cycles of one bus overlap.
C11_NoDuplicateMarks ==
    \A id \in Ids :
        /\ (pending[id].exists /\ pending[id].text.valid) =>
                NoDuplicates(Record(pending[id]).processedBy)
        /\ (processed[id].exists /\ processed[id].text.valid) =>
                NoDuplicates(Record(processed[id]).processedBy)

\* C11, its case: two cycles of one bus are in flight, both have pushed the
\* bus's identity onto their copy of the record, and one copy is persisted.
C11_Witness ==
    /\ \A t \in Cycles("hiring") :
        /\ pc[t] \in {"up_access", "up_open", "up_write", "up_rename"}
        /\ InSeq("hiring", Head(events[t]).processedBy)
    /\ pending["e1"].exists /\ pending["e1"].text.valid
    /\ InSeq("hiring", Record(pending["e1"]).processedBy)

\* C13: a bus never has two poll cycles in flight.
C13_OneCycleInFlight ==
    \A b \in Bus : Cardinality({t \in Cycles(b) : pc[t] # "idle"}) <= 1

\* C12: a consumer named in the persisted processedBy of a pending record
\* is named in every later persisted version of it.
C12_MarksAppendOnly ==
    [][\A id \in Ids :
        (/\ pending[id].exists /\ pending[id].text.valid
         /\ pending'[id].exists /\ pending'[id].text.valid) =>
            SeqToSet(Record(pending[id]).processedBy)
                \subseteq SeqToSet(Record(pending'[id]).processedBy)]_vars

\* C15: whenever a poll cycle reads a file under a final pending name, it
\* reads a complete record (a cycle at "quarantine" has just read an
\* unparseable one).
C15_NoPartialRead ==
    \A t \in Bus \cup Tick : pc[t] # "quarantine"

\* C16: a resource of the archive, once written, is not written again and
\* keeps its content.
C16_ArchiveWriteOnce ==
    [][\A id \in Ids :
        (processed[id].exists /\ processed[id].writers = {}) =>
            processed'[id] = processed[id]]_vars

\* The record of id is in the archive and not in pending.
Archived(id) == processed[id].exists /\ ~pending[id].exists

\* C14: with three buses polling and every step in flight completing, a
\* published record is eventually archived, gone from pending, for good.
C14_EventuallyArchived ==
    \A id \in Ids : (npub[id] > 0) ~> [](Archived(id))

\* Bus b has processed the record of id: its mark is in the pending record,
\* or the record has left pending for the archive.
Done(b, id) ==
    IF pending[id].exists
    THEN pending[id].text.valid /\ InSeq(b, Record(pending[id]).processedBy)
    ELSE processed[id].exists

\* The record of id was pending, parseable and not marked by b when the
\* cycle listed the directory.
Due(b, id) ==
    /\ pre[id].exists /\ pre[id].text.valid
    /\ ~InSeq(b, Record(pre[id]).processedBy)

\* C17: when a cycle comes to process a record, it has processed (handlers
\* run, mark made) every due record with an earlier timestamp and none with
\* a later timestamp, whatever the order of the directory listing.
C17_TimestampOrder ==
    \A t \in Bus :
        (pc[t] = "dispatch" /\ ~AlreadyProcessed(Head(events[t]), t)) =>
            LET event == Head(events[t])
            IN  \A id \in Ids :
                    Due(t, id) =>
                        /\ Record(pre[id]).timestamp < event.timestamp =>
                                Done(t, id) /\ invoked[t][id] = 1
                        /\ Record(pre[id]).timestamp > event.timestamp =>
                                pending[id] = pre[id] /\ invoked[t][id] = 0

\* C17, its case: three due records with distinct timestamps that run
\* against the order of their names; the cycle is about to process the
\* middle one.
C17_Witness ==
    /\ pc["worker"] = "dispatch"
    /\ \A id \in Ids : Due("worker", id)
    /\ Record(pre["e1"]).timestamp > Record(pre["e2"]).timestamp
    /\ Record(pre["e2"]).timestamp > Record(pre["e3"]).timestamp
    /\ Head(events["worker"]).id = "e2"
    /\ Done("worker", "e3") /\ ~Done("worker", "e1")

\* C18: a cycle over a directory with files that do not parse returns
\* having processed every due record and no other, and with each such file
\* moved, as it was, to corrupted-{name} in the archive directory.
C18_CorruptedIsolated ==
    \A b \in Bus :
        (AllIdle /\ last = b) =>
            \A id \in Ids :
                /\ (pre[id].exists /\ ~pre[id].text.valid) =>
                        /\ ~pending[id].exists
                        /\ ~processed[id].exists
                        /\ corrupted[id] = pre[id]
                        /\ invoked[b][id] = 0
                /\ Due(b, id) => Done(b, id) /\ invoked[b][id] = 1
                /\ (pre[id].exists /\ pre[id].text.valid /\ ~Due(b, id)) =>
                        pending[id] = pre[id]

\* C18, its case: the cycle found one file that does not parse and two due
\* records, and has returned.
C18_Witness ==
    /\ AllIdle /\ last = "worker"
    /\ \E bad \in Ids :
        /\ pre[bad].exists /\ ~pre[bad].text.valid
        /\ corrupted[bad].exists
        /\ \A id \in Ids \ {bad} : Due("worker", id) /\ Done("worker", id)

\* C19: a consumer process killed in the middle of its update leaves the
\* file under the final pending name as it was, complete and parseable, and
\* the poll cycles after the restart read it as a record.
C19_CrashKeepsRecord ==
    /\ [](\A id \in Ids : pending[id].exists => pending[id].text.valid)
    /\ [](\A t \in Bus : pc[t] # "quarantine")
    /\ [][kills' # kills =>
            \A id \in Ids :
                /\ pending'[id].exists = pending[id].exists
                /\ pending'[id].text = pending[id].text]_vars

\* C19, its case: a process was killed between opening the temp file and
\* writing it, and a poll cycle since has read the record.
C19_Witness ==
    /\ kills > 0
    /\ temp["e1"].exists /\ ~temp["e1"].text.valid /\ temp["e1"].writers = {}
    /\ \E t \in TickBus :
        /\ pc[t] = "dispatch"
        /\ Head(events[t]) = Record(pending["e1"])

\* C20: a handler that throws stops nothing: when the cycle has returned,
\* every handler registered for the type of each due record was called, in
\* order, and every due record carries the bus's mark (or is archived).
C20_HandlerFailureIsolated ==
    \A b \in Bus :
        (AllIdle /\ last = b) =>
            \A id \in Ids :
                Due(b, id) =>
                    /\ handled[b][id] = Handlers(b, Record(pre[id]).type)
                    /\ Done(b, id)

\* C20, its case: the first of two handlers throws, for the first of two
\* due records; the cycle has returned.
C20_Witness ==
    /\ AllIdle /\ last = "worker"
    /\ Len(Handlers("worker", "JOB_CREATED")) = 2
    /\ Head(Handlers("worker", "JOB_CREATED")) \in failing
    /\ Due("worker", "e1") /\ Due("worker", "e2")
    /\ Done("worker", "e1") /\ Done("worker", "e2")

\* C21: a poll cycle whose directory listing fails leaves the bus polling
\* with its timer armed, the first cycle of startPolling() included: a bus
\* that is polling, and whose startPolling() is through, holds a live timer.
C21_FailedCycleKeepsTimer ==
    \A b \in Bus :
        (isPolling[b] /\ awaiting[b] = {}) => (pollingTimer[b] /\ timers[b] > 0)

\* C22: publish() never rejects, and a call that had a storage step fail
\* neither creates nor changes the resource under the record's final name.
C22_PublishFailsQuietly ==
    /\ [](thrown \cap Pub = {})
    /\ [][\A t \in Pub : \A id \in faulted'[t] : pending'[id] = pending[id]]_vars

\* C23: whatever start and stop calls a bus gets, it never has more than
\* one interval timer alive.
C23_AtMostOneTimer ==
    \A b \in Bus : timers[b] <= 1

\* C26: a timer is alive only while the bus is in the polling state, so
\* that a stopped bus starts no poll cycle, also when stopPolling() came
\* while startPolling() was awaiting its initial poll.
C26_NoTimerWhenStopped ==
    \A b \in Bus : timers[b] > 0 => isPolling[b]

\* C24: the update of a record that another consumer has archived in the
\* meantime is a no-op: its rename puts no resource of that id back into
\* pending, and the poll cycle does not reject.
C24_UpdateAfterArchiveNoOp ==
    /\ [](thrown \cap Bus = {})
    /\ [][\A t \in Bus :
            (pc[t] = "up_rename" /\ pc'[t] # "up_rename") =>
                LET id == Head(events[t]).id
                IN  (~pending[id].exists /\ processed[id].exists) =>
                        ~pending'[id].exists]_vars

\* C25: two consumers that both reach the threshold for a record and move
\* it, their steps interleaved in any way: no poll cycle rejects, the
\* record is never lost from both namespaces, and once the cycles have
\* returned it is gone from pending and complete in the archive.
C25_ConcurrentMove ==
    /\ thrown \cap Bus = {}
    /\ \A id \in {"e1", "e2"} :
        /\ pending[id].exists \/ processed[id].exists
        /\ (AllIdle /\ polled # {}) =>
                /\ ~pending[id].exists
                /\ processed[id].exists /\ processed[id].writers = {}
                /\ processed[id].text.valid
                /\ Record(processed[id]).id = id
                /\ Len(Record(processed[id]).processedBy) = 2

\* C25, its case: both consumers are in moveToProcessed for one record, and
\* one comes to unlink the source the other has already removed.
C25_Witness ==
    /\ pc["worker"] = "mv_unlink" /\ Head(events["worker"]).id = "e1"
    /\ ~pending["e1"].exists /\ processed["e1"].exists
    /\ "hiring" \in polled

\* The content of a file is a structurally valid event record.
Structural(file) ==
    file.text.valid /\ Record(file).processedBy # NoProcessedBy

\* C27: a pending file that is no valid event record, JSON without
\* processedBy included, is quarantined and not processed; the cycle does
\* not reject and processes every other due record.
C27_MalformedQuarantined ==
    \A b \in Bus :
        /\ b \notin thrown
        /\ (AllIdle /\ last = b) =>
            \A id \in Ids :
                /\ (pre[id].exists /\ ~Structural(pre[id])) =>
                        /\ ~pending[id].exists
                        /\ corrupted[id] = pre[id]
                        /\ invoked[b][id] = 0
                /\ (Structural(pre[id]) /\ Due(b, id)) => Done(b, id)

\* C28: a file operation of the update or the move that fails for one
\* record does not make poll() reject: when the cycle has returned, the
\* handlers ran for every due record, every due record whose operations
\* succeeded is marked or archived, and the pending file of a record whose
\* operation failed is as the cycle found it.
C28_StorageFailureContained ==
    \A b \in Bus :
        /\ b \notin thrown
        /\ (AllIdle /\ last = b) =>
            \A id \in Ids :
                Due(b, id) =>
                    /\ invoked[b][id] >= 1
                    /\ id \in faulted[b] => pending[id] = pre[id]
                    /\ id \notin faulted[b] => Done(b, id)

\* C28, its case: an operation failed for the older of two due records,
\* and the cycle has gone on to process the younger and has returned.
C28_Witness ==
    /\ AllIdle /\ last = "worker"
    /\ Due("worker", "e1") /\ Due("worker", "e2")
    /\ faulted["worker"] = {"e1"}
    /\ pending["e1"] = pre["e1"]
    /\ Done("worker", "e2") /\ invoked["worker"]["e2"] >= 1

\* s is an initial part of r.
IsPrefix(s, r) == Len(s) <= Len(r) /\ SubSeq(r, 1, Len(s)) = s

\* C29: the handlers of a record's type are called one at a time, in the
\* order of their registration and each once, none before the one before has
\* settled; the bus's mark is made, and persisted, only after the last has
\* settled.
C29_HandlersInTurn ==
    \A t \in Bus :
        /\ Cardinality(running[t]) <= 1
        /\ pc[t] = "handlers" =>
            LET event == Head(events[t])
            IN  /\ IsPrefix(handled[t][event.id], Handlers(t, event.type))
                /\ Len(handled[t][event.id]) + Len(todo[t])
                        = Len(Handlers(t, event.type))
                /\ ~InSeq(t, event.processedBy)
                /\ ~InSeq(t, Record(pending[event.id]).processedBy)
        /\ pc[t] \in {"mv_read", "up_access"} =>
            LET event == Head(events[t])
            IN  /\ running[t] = {} /\ todo[t] = <<>>
                /\ handled[t][event.id] = Handlers(t, event.type)
        /\ (AllIdle /\ last = t) =>
            \A id \in Ids :
                Due(t, id) => handled[t][id] = Handlers(t, Record(pre[id]).type)

\* C29, its case: two handlers are registered, both were called for the
\* record, the first of them one that rejects, and the mark has just been
\* made.
C29_Witness ==
    /\ pc["worker"] = "up_access"
    /\ Len(Handlers("worker", "JOB_CREATED")) = 2
    /\ Head(Handlers("worker", "JOB_CREATED")) \in failing
    /\ handled["worker"]["e1"] = Handlers("worker", "JOB_CREATED")
    /\ Head(events["worker"]).id = "e1"
    /\ InSeq("worker", Head(events["worker"]).processedBy)

\* C30: a `.{id}.tmp` file in the pending directory is never a candidate:
\* no cycle has its name in its list, every event a cycle holds was read
\* from a final name, and no step moves or changes a temp file that no
\* writer is at work on.
C30_TempNeverCandidate ==
    /\ [](\A t \in Bus \cup Tick :
            /\ \A i \in 1..Len(files[t]) : files[t][i] = FinalName(files[t][i].id)
            /\ \A i \in 1..Len(events[t]) : pre[events[t][i].id].exists)
    /\ [][\A id \in Ids :
            (temp[id].exists /\ temp[id].writers = {} /\ ~pending[id].exists) =>
                temp'[id] = temp[id]]_vars

\* C30, its case: a temp file with a complete record has been in the
\* directory all through a cycle that processed another record.
C30_Witness ==
    /\ AllIdle /\ last = "worker"
    /\ temp["e1"].exists /\ temp["e1"].text.valid
    /\ invoked["worker"]["e1"] = 0
    /\ Due("worker", "e2") /\ Done("worker", "e2")

\* C31: a bus with no handler registered for a due record's type calls no
\* handler for it and still marks it: when the cycle has returned, the
\* pending record is the one found with the bus appended to processedBy,
\* or, when the mark is the third, the record is archived.
C31_UnhandledStillMarked ==
    \A b \in Bus :
        (AllIdle /\ last = b) =>
            \A id \in Ids :
                (Due(b, id) /\ Handlers(b, Record(pre[id]).type) = <<>>) =>
                    LET old == Record(pre[id])
                        n == Len(old.processedBy) + 1
                    IN  /\ handled[b][id] = <<>>
                        /\ invoked[b][id] = 0
                        /\ n >= ExpectedConsumers =>
                            /\ ~pending[id].exists
                            /\ processed[id].exists
                            /\ processed[id].text.valid
                            /\ Record(processed[id]).id = id
                        /\ n < ExpectedConsumers =>
                            /\ pending[id].exists
                            /\ pending[id].text = Stringify(
                                [old EXCEPT !.processedBy = Append(@, b)])

\* C31, its case: the worker's bus, with nothing subscribed, has run a cycle
\* over an unmarked record and one marked by the two other services.
C31_Witness ==
    /\ AllIdle /\ last = "worker"
    /\ \A type \in EventTypes : Handlers("worker", type) = <<>>
    /\ Due("worker", "e1") /\ Due("worker", "e2")
    /\ Len(Record(pre["e1"]).processedBy) = 0
    /\ Len(Record(pre["e2"]).processedBy) = 2
    /\ Record(pending["e1"]).processedBy = <<"worker">>
    /\ processed["e2"].exists /\ ~pending["e2"].exists

\* C32: a cycle that comes to a record whose processedBy names its own bus
\* skips it: the step calls no handler and changes no resource of the
\* record's id in the pending or in the archive directory, and when the
\* cycle has returned the record is pending as the cycle found it.
C32_SkipTouchesNothing ==
    /\ [][\A t \in Bus :
            (pc[t] = "dispatch" /\ InSeq(AgentId(t), Head(events[t]).processedBy)) =>
                LET id == Head(events[t]).id
                IN  /\ pending'[id] = pending[id] /\ temp'[id] = temp[id]
                    /\ processed'[id] = processed[id]
                    /\ corrupted'[id] = corrupted[id]
                    /\ invoked'[AgentId(t)][id] = invoked[AgentId(t)][id]
                    /\ handled'[AgentId(t)][id] = handled[AgentId(t)][id]
                    /\ pc'[t] \in {"dispatch", "idle"}]_vars
    /\ [](\A b \in Bus :
            (AllIdle /\ last = b) =>
                \A id \in Ids :
                    (pre[id].exists /\ pre[id].text.valid
                        /\ InSeq(b, Record(pre[id]).processedBy)) =>
                        /\ pending[id] = pre[id]
                        /\ ~temp[id].exists /\ ~processed[id].exists
                        /\ invoked[b][id] <= 1 /\ Len(handled[b][id]) <= 1)

\* C32, its case: the cycle found a record its bus had marked next to a due
\* one, has processed the due one, and has returned.
C32_Witness ==
    /\ AllIdle /\ last = "worker"
    /\ pre["e1"].exists /\ pre["e1"].text.valid
    /\ InSeq("worker", Record(pre["e1"]).processedBy)
    /\ pending["e1"] = pre["e1"]
    /\ Due("worker", "e2") /\ Done("worker", "e2")
    /\ invoked["worker"]["e2"] = 1

\* C33: the record a publish() call stores is the record it was called
\* with, with the id, timestamp, processedBy and status it lacked filled in
\* (a generated id, the current time, an empty processedBy, status pending)
\* and every field it had as the caller gave it.
C33_DefaultsOnlyMissing ==
    \A t \in Pub :
        (AllIdle /\ given[t] # NoCall) =>
            LET input == given[t].event
            IN  \E id \in Ids :
                    /\ \A other \in Ids \ {id} : ~pending[other].exists
                    /\ pending[id].exists /\ pending[id].text.valid
                    /\ pending[id].writers = {} /\ ~temp[id].exists
                    /\ LET stored == Record(pending[id])
                       IN  /\ stored.id = id
                           /\ IF input.id = "" THEN id \in GeneratedIds
                                               ELSE id = input.id
                           /\ IF input.timestamp = 0
                              THEN stored.timestamp \in Timestamps
                              ELSE stored.timestamp = input.timestamp
                           /\ stored.processedBy =
                                IF input.processedBy = NoProcessedBy THEN <<>>
                                ELSE input.processedBy
                           /\ stored.status =
                                IF input.status = "" THEN "pending" ELSE input.status
                           /\ stored.type = input.type
                           /\ stored.sourceAgent = input.sourceAgent
                           /\ stored.targetAgent = input.targetAgent
                           /\ stored.payload = input.payload

\* C33, its case: the call was made with a record that has a status, a
\* processedBy and a targetAgent of its own and leaves the id and the
\* timestamp to publish(), and it has returned.
C33_Witness ==
    /\ AllIdle
    /\ given["pub1"].event.id = "" /\ given["pub1"].event.timestamp = 0
    /\ given["pub1"].event.status = "processed"
    /\ given["pub1"].event.processedBy = <<"hiring">>
    /\ given["pub1"].event.targetAgent = "arbitrator"
    /\ \E id \in Ids :
        /\ pending[id].exists
        /\ Record(pending[id]).status = "processed"
        /\ Record(pending[id]).timestamp \in Timestamps

\* C34: the record a publishEvent() call stores has the role of the runtime
\* it was made through as sourceAgent, whatever sourceAgent the caller's
\* record had, and no text with another sourceAgent is ever written by it.
C34_SourceAgentStamped ==
    \A t \in Pub :
        given[t].by \in Bus =>
            /\ \A id \in Ids :
                    /\ (pending[id].exists /\ pending[id].text.valid) =>
                            Record(pending[id]).sourceAgent = AgentType(given[t].by)
                    /\ (temp[id].exists /\ temp[id].text.valid) =>
                            Record(temp[id]).sourceAgent = AgentType(given[t].by)
            /\ AllIdle => \E id \in Ids : pending[id].exists /\ pending[id].text.valid

\* C34, its case: the worker's runtime was handed a record that names the
\* hiring agent as its source, and the call has returned.
C34_Witness ==
    /\ AllIdle
    /\ given["pub1"].by = "worker"
    /\ given["pub1"].event.sourceAgent = "hiring"
    /\ \E id \in Ids :
        pending[id].exists /\ Record(pending[id]).sourceAgent = "worker"

\* The type the two records of a broadcast run have.
TypeOf(id) ==
    IF pending[id].exists THEN Record(pending[id]).type ELSE Record(processed[id]).type

\* C35: delivery is broadcast.  Of two records that differ only in
\* targetAgent and sourceAgent, every consumer whose cycle has returned has
\* run its handlers for both (once, when it has handlers for the type) and
\* is counted for both, whoever the records name as target; and the two
\* are in the same place with the same processedBy.
C35_Broadcast ==
    AllIdle =>
        /\ \A b \in Services : \A id \in {"e1", "e2"} :
                /\ b \in polled =>
                        /\ Done(b, id)
                        /\ invoked[b][id] =
                                IF SetupEventHandlers(b, TypeOf(id)) = <<>> THEN 0 ELSE 1
                /\ b \notin polled => invoked[b][id] = 0
        /\ pending["e1"].exists = pending["e2"].exists
        /\ processed["e1"].exists = processed["e2"].exists
        /\ pending["e1"].exists =>
                Record(pending["e1"]).processedBy = Record(pending["e2"]).processedBy
        /\ \A b \in Services : handled[b]["e1"] = handled[b]["e2"]

\* C35, its case: a record addressed to the arbitrator, of a type the worker
\* has a handler for, has been handled and marked by the worker.
C35_Witness ==
    /\ AllIdle /\ polled = {"worker"}
    /\ pending["e2"].exists
    /\ Record(pending["e2"]).targetAgent = "arbitrator"
    /\ Record(pending["e2"]).processedBy = <<"worker">>
    /\ handled["worker"]["e2"] = <<"handleJobCreated">>

\* C36: a bus fails at startup when its directories cannot be created.  A
\* bus whose ensureDirectories() has failed is not in the polling state, and
\* a bus that is in the polling state or has a poll cycle in flight (it has
\* listed pendingDir) has its ensureDirectories() returned.
C36_StartupFailsClosed ==
    \A b \in StartupBus :
        /\ ensure[b] = "failed" => ~isPolling[b]
        /\ (isPolling[b] \/ pc[b] # "idle") => ensure[b] = "done"

\* C37: an agent's handlers are registered before its bus runs a poll
\* cycle.  A bus that is polling or has a cycle in flight has every handler
\* of setupEventHandlers() in its registry, and once its first cycle (the
\* one startPolling() awaits) has returned, each record pending at the start
\* has been dispatched to exactly the handlers the agent has for its type.
C37_HandlersBeforeFirstPoll ==
    \A b \in StartupBus :
        /\ (isPolling[b] \/ pc[b] # "idle") =>
                handlers[b] = [type \in EventTypes |-> SetupEventHandlers(b, type)]
        /\ (isPolling[b] /\ pc[b] = "idle" /\ b \notin thrown) =>
                \A id \in Ids :
                    pending[id].exists =>
                        handled[b][id] =
                            SetupEventHandlers(b, Record(pending[id]).type)

\* C37, its case: the first cycle of the hiring bus, the one startPolling()
\* is still awaiting, has called handleWorkSubmitted for a record that was
\* pending when the agent was constructed, and has skipped no handler for
\* the JOB_CREATED record next to it, the agent having none.
C37_Witness ==
    /\ "hiring" \in awaiting["hiring"]
    /\ pc["hiring"] = "idle"
    /\ timers["hiring"] = 0
    /\ \E id \in Ids :
        /\ pending[id].exists
        /\ Record(pending[id]).type = "WORK_SUBMITTED"
        /\ handled["hiring"][id] = <<"handleWorkSubmitted">>
    /\ \E id \in Ids :
        /\ pending[id].exists
        /\ Record(pending[id]).type = "JOB_CREATED"
        /\ handled["hiring"][id] = <<>>

====
